---- MODULE Spec2Model ----
(***************************************************************************)
(* Model of the NumPy backend of fealpy (fealpy/backend/numpy_backend.py): *)
(* the finite-element kernels (multi-index matrix, simplex shape functions *)
(* and their barycentric gradients) and the sparse kernels (COO -> CSR,    *)
(* sparse x dense products, sparse x sparse product), the geometry kernels *)
(* (simplex measure, edge normal, gradients of the barycentric             *)
(* coordinates of a triangle), vmap, array creation with a device          *)
(* argument, the operations left unimplemented, and the threads that       *)
(* select an engine and draw random numbers.                               *)
(*                                                                         *)
(* The backend is a synchronous function library: a caller invokes one     *)
(* kernel with some arguments, the kernel returns a value or raises, and   *)
(* the caller takes the outcome.  The state is the caller's position (pc), *)
(* the call in progress (call) and its outcome (ret).  Floating point      *)
(* values are modelled as exact rationals <<numerator, denominator>>.      *)
(***************************************************************************)
EXTENDS Integers, Sequences, FiniteSets, TLC

VARIABLES pc, call, ret, engine, job, rng, own, drawn, ds, mem, backend_name,
          vb

\* the caller of the kernels
callVars == <<pc, call, ret>>
\* the threads of the process: engine selection and random generator
threadVars == <<engine, job, rng, own, drawn>>
\* the objects of the program: the mesh data structure, the arrays, the name
\* of the active backend and the VmapBackend object
objectVars == <<ds, mem, backend_name, vb>>

vars == <<pc, call, ret, engine, job, rng, own, drawn, ds, mem, backend_name,
         vb>>

(***************************************************************************)
(* Bounds of the model.                                                    *)
(***************************************************************************)
\* largest polynomial degree p passed to the finite-element kernels
MaxP == 3
\* largest denominator of the coordinates of a barycentric point
BcDen == 2

\* largest number of rows and of columns of a sparse matrix
MaxDim == 2
\* largest number of stored entries of a COO input
MaxNnz == 2
\* largest number of columns of a rank 2 dense operand
MaxVecs == 2
\* largest rank of the dense operand of a sparse product
MaxRank == 3

\* topological dimensions of the simplices (interval, triangle, tetrahedron)
TDs == {1, 2, 3}

(***************************************************************************)
(* Outcome of a call: a returned value or a raised exception.              *)
(***************************************************************************)
Value(v) == [kind |-> "value", val |-> v]
Raise(e, m) == [kind |-> "raise", exc |-> e, msg |-> m]

(***************************************************************************)
(* Generic helpers on sequences and integers.                              *)
(***************************************************************************)
Abs(n) == IF n < 0 THEN -n ELSE n

RECURSIVE GCD(_, _)
GCD(a, b) == IF b = 0 THEN a ELSE GCD(b, a % b)

RECURSIVE SumSeq(_)
SumSeq(s) == IF s = <<>> THEN 0 ELSE Head(s) + SumSeq(Tail(s))

RECURSIVE Concat(_)
Concat(ss) == IF ss = <<>> THEN <<>> ELSE Head(ss) \o Concat(Tail(ss))

\* a sequence given by a rule, stored element by element (an ndarray holds
\* its values; it does not recompute them when read)
Array(f) == f \o <<>>

Reverse(s) == Array([k \in 1..Len(s) |-> s[Len(s) + 1 - k]])

(***************************************************************************)
(* Exact rationals standing for the floating point numbers of the code.    *)
(***************************************************************************)
Rat(n, d) ==
    LET s == IF d < 0 THEN -1 ELSE 1
        g == GCD(Abs(n), Abs(d))
    IN  <<(s * n) \div g, (s * d) \div g>>

RInt(n) == <<n, 1>>

RAdd(x, y) == Rat(x[1] * y[2] + y[1] * x[2], x[2] * y[2])

RSub(x, y) == Rat(x[1] * y[2] - y[1] * x[2], x[2] * y[2])

RMul(x, y) == Rat(x[1] * y[1], x[2] * y[2])

RECURSIVE RSum(_)
RSum(s) == IF s = <<>> THEN RInt(0) ELSE RAdd(Head(s), RSum(Tail(s)))

RECURSIVE RProd(_)
RProd(s) == IF s = <<>> THEN RInt(1) ELSE RMul(Head(s), RProd(Tail(s)))

(***************************************************************************)
(* itertools.combinations_with_replacement(range(lo, n), r): the           *)
(* non-decreasing r-tuples over lo..n-1, in lexicographic order.           *)
(***************************************************************************)
RECURSIVE CombsFrom(_, _, _)
CombsFrom(lo, hi, r) ==
    IF r = 0 THEN << <<>> >>
    ELSE Concat(Array([f \in 1..(hi - lo + 1) |->
                    LET first == lo + f - 1
                        rest  == CombsFrom(first, hi, r - 1)
                    IN  Array([k \in 1..Len(rest) |-> <<first>> \o rest[k]])]))

\* mutant: itertools.combinations (strictly increasing tuples) in its place
RECURSIVE StrictCombsFrom(_, _, _)
StrictCombsFrom(lo, hi, r) ==
    IF r = 0 THEN << <<>> >>
    ELSE Concat(Array([f \in 1..(hi - lo + 1) |->
                    LET first == lo + f - 1
                        rest  == StrictCombsFrom(first + 1, hi, r - 1)
                    IN  Array([k \in 1..Len(rest) |-> <<first>> \o rest[k]])]))

combinations_without_replacement(n, r) == StrictCombsFrom(0, n - 1, r)

combinations_with_replacement(n, r) == CombsFrom(0, n - 1, r)

(***************************************************************************)
(* NumPyBackend.multi_index_matrix(p, dim).                                *)
(***************************************************************************)
\* mutant: the np.flip left out
multi_index_sep_noflip(p, dim) == combinations_with_replacement(p + 1, dim)

\* np.flip(..., axis=0): the rows in reverse order
multi_index_sep(p, dim) == Reverse(combinations_with_replacement(p + 1, dim))

\* raw[:, 0] = 0, raw[:, 1:-1] = sep, raw[:, -1] = p
multi_index_raw(p, dim) ==
    LET sep == multi_index_sep(p, dim)
    IN  Array([k \in 1..Len(sep) |-> <<0>> \o sep[k] \o <<p>>])

\* raw[:, 1:] - raw[:, :-1]
multi_index_matrix(p, dim) ==
    LET raw == multi_index_raw(p, dim)
    IN  Array([k \in 1..Len(raw) |->
                  Array([i \in 1..(dim + 1) |-> raw[k][i + 1] - raw[k][i]])])

(***************************************************************************)
(* Tables shared by simplex_shape_function and simplex_grad_shape_function.*)
(* A barycentric point bc is a sequence of TD+1 rationals; a table is a    *)
(* sequence of p+1 rows (row k holds index k-1 of the code's axis -2), each*)
(* a sequence of TD+1 rationals.                                           *)
(***************************************************************************)
\* c = np.arange(1, p+1); P = 1.0/np.multiply.accumulate(c)
RECURSIVE multiply_accumulate(_)
multiply_accumulate(c) ==
    IF c = <<>> THEN <<>>
    ELSE LET init == multiply_accumulate(SubSeq(c, 1, Len(c) - 1))
         IN  Append(init, IF init = <<>> THEN c[Len(c)]
                          ELSE init[Len(init)] * c[Len(c)])

\* mutant: 1.0/c without the running product
shape_P_noaccumulate(p) == Array([r \in 1..p |-> Rat(1, r)])

shape_P(p) ==
    LET acc == multiply_accumulate(Array([r \in 1..p |-> r]))
    IN  Array([r \in 1..p |-> Rat(1, acc[r])])

\* mutant: A starts as np.zeros(shape)
shape_A0_zeros(bc, p) ==
    Array([k \in 1..(p + 1) |->
        Array([i \in 1..Len(bc) |->
            IF k = 1 THEN RInt(0)
            ELSE RSub(RMul(RInt(p), bc[i]), RInt(k - 2))])])

\* A = np.ones(shape); A[..., 1:, :] = p*bc[..., None, :] - t.reshape(-1, 1)
shape_A0(bc, p) ==
    Array([k \in 1..(p + 1) |->
        Array([i \in 1..Len(bc) |->
            IF k = 1 THEN RInt(1)
            ELSE RSub(RMul(RInt(p), bc[i]), RInt(k - 2))])])

\* np.cumprod(T, axis=-2, out=T) on a table of rows
RECURSIVE cumprod_rows(_)
cumprod_rows(T) ==
    IF Len(T) <= 1 THEN T
    ELSE LET init == cumprod_rows(SubSeq(T, 1, Len(T) - 1))
             last == T[Len(T)]
         IN  Append(init, Array([i \in 1..Len(last) |->
                                    RMul(init[Len(init)][i], last[i])]))

\* mutant: the division by the factorials left out
scale_rows_unscaled(T, P) == T

\* T[..., 1:, :] *= P.reshape(-1, 1)
scale_rows(T, P) ==
    Array([k \in 1..Len(T) |->
        IF k = 1 THEN T[k]
        ELSE Array([i \in 1..Len(T[k]) |-> RMul(T[k][i], P[k - 1])])])

\* np.cumprod(A, axis=-2, out=A); A[..., 1:, :] *= P.reshape(-1, 1)
shape_A(bc, p) == scale_rows(cumprod_rows(shape_A0(bc, p)), shape_P(p))

(***************************************************************************)
(* NumPyBackend.simplex_shape_function(bc, p, mi=None).                    *)
(***************************************************************************)
simplex_shape_function(bc, p) ==
    IF p = 1 THEN bc
    ELSE LET TD == Len(bc) - 1
             mi == multi_index_matrix(p, TD)
             A  == shape_A(bc, p)
         IN  \* phi = np.prod(A[..., mi, idx], axis=-1)
             Array([j \in 1..Len(mi) |->
                 RProd(Array([i \in 1..(TD + 1) |-> A[mi[j][i] + 1][i]]))])

(***************************************************************************)
(* NumPyBackend.simplex_grad_shape_function(bc, p, mi=None).               *)
(***************************************************************************)
\* FF = np.einsum('...jk, m->...kjm', A[..., 1:, :], np.ones(p));
\* FF[..., range(p), range(p)] = p.   FF[i][j][m], j and m in 1..p
\* mutant: the diagonal of FF not overwritten by p
grad_FF0_nodiag(bc, p) ==
    LET A0 == shape_A0(bc, p)
    IN  Array([i \in 1..Len(bc) |->
            Array([j \in 1..p |->
                Array([m \in 1..p |-> A0[j + 1][i]])])])

grad_FF0(bc, p) ==
    LET A0 == shape_A0(bc, p)
    IN  Array([i \in 1..Len(bc) |->
            Array([j \in 1..p |->
                Array([m \in 1..p |-> IF j = m THEN RInt(p) ELSE A0[j + 1][i]])])])

\* np.cumprod(FF, axis=-2, out=FF): along j, for every i and m
grad_FF(bc, p) ==
    LET FF0 == grad_FF0(bc, p)
    IN  Array([i \in 1..Len(bc) |-> cumprod_rows(FF0[i])])

\* F = zeros; F[..., 1:, :] = np.sum(np.tril(FF), axis=-1).swapaxes(-1, -2);
\* F[..., 1:, :] *= P.reshape(-1, 1)
grad_F(bc, p) ==
    LET FF == grad_FF(bc, p)
        F0 == Array([k \in 1..(p + 1) |->
                  Array([i \in 1..Len(bc) |->
                      IF k = 1 THEN RInt(0)
                      ELSE RSum(Array([m \in 1..(k - 1) |-> FF[i][k - 1][m]]))])])
    IN  scale_rows(F0, shape_P(p))

simplex_grad_shape_function(bc, p) ==
    LET TD == Len(bc) - 1
        mi == multi_index_matrix(p, TD)
        F  == grad_F(bc, p)
        A  == shape_A(bc, p)
        \* Q = A[..., mi, range(TD+1)]; M = F[..., mi, range(TD+1)]
        Q  == Array([j \in 1..Len(mi) |->
                  Array([i \in 1..(TD + 1) |-> A[mi[j][i] + 1][i]])])
        M  == Array([j \in 1..Len(mi) |->
                  Array([i \in 1..(TD + 1) |-> F[mi[j][i] + 1][i]])])
    IN  \* R[..., i] = M[..., i]*np.prod(Q[..., idx], axis=-1), idx without i
        Array([j \in 1..Len(mi) |->
            Array([i \in 1..(TD + 1) |->
                RMul(M[j][i],
                     RProd(Array([k \in 1..TD |->
                               Q[j][IF k < i THEN k ELSE k + 1]])))])])

(***************************************************************************)
(* Sparse kernels of scipy.sparse._sparsetools used by the backend.  Index *)
(* arrays hold 0-based indices; At reads position i (0-based) of an array. *)
(***************************************************************************)
At(a, i) == a[i + 1]

Zeros(n) == Array([k \in 1..n |-> 0])

\* entries written into an np.empty array, in order of their positions
Filled(f, n) == Array([k \in 1..n |-> f[k - 1]])

\* mutant: Bx[dest] = Ax[dest] in place of Bx[dest] = Ax[n]
RECURSIVE coo_tocsr_fill_wrongsrc(_, _, _, _, _)
coo_tocsr_fill_wrongsrc(n, Ai, Aj, Ax, st) ==
    IF n > Len(Ai) THEN st
    ELSE LET row  == Ai[n]
             dest == At(st.Bp, row)
         IN  coo_tocsr_fill_wrongsrc(n + 1, Ai, Aj, Ax,
                 [Bp |-> [st.Bp EXCEPT ![row + 1] = @ + 1],
                  Bj |-> (dest :> Aj[n]) @@ st.Bj,
                  Bx |-> (dest :> At(Ax, dest)) @@ st.Bx])

\* the loop `for n in range(nnz)` of coo_tocsr: Bj[Bp[row]] = Aj[n];
\* Bx[Bp[row]] = Ax[n]; Bp[row]++
RECURSIVE coo_tocsr_fill(_, _, _, _, _)
coo_tocsr_fill(n, Ai, Aj, Ax, st) ==
    IF n > Len(Ai) THEN st
    ELSE LET row  == Ai[n]
             dest == At(st.Bp, row)
         IN  coo_tocsr_fill(n + 1, Ai, Aj, Ax,
                 [Bp |-> [st.Bp EXCEPT ![row + 1] = @ + 1],
                  Bj |-> (dest :> Aj[n]) @@ st.Bj,
                  Bx |-> (dest :> Ax[n]) @@ st.Bx])

\* mutant: the last loop, which shifts Bp back by one row, left out
sparsetools_coo_tocsr_noshift(n_row, n_col, nnz, Ai, Aj, Ax) ==
    LET count  == Array([r \in 1..n_row |->
                     Cardinality({n \in 1..nnz : Ai[n] = r - 1})])
        start  == Array([r \in 1..(n_row + 1) |->
                     IF r = n_row + 1 THEN nnz
                     ELSE SumSeq(SubSeq(count, 1, r - 1))])
        filled == coo_tocsr_fill(1, Ai, Aj, Ax,
                     [Bp |-> start, Bj |-> <<>>, Bx |-> <<>>])
    IN  [Bp |-> filled.Bp, Bj |-> filled.Bj, Bx |-> filled.Bx]

\* scipy.sparse._sparsetools.coo_tocsr(n_row, n_col, nnz, Ai, Aj, Ax, Bp, Bj, Bx)
sparsetools_coo_tocsr(n_row, n_col, nnz, Ai, Aj, Ax) ==
    LET \* Bp[Ai[n]]++ for every entry
        count  == Array([r \in 1..n_row |->
                     Cardinality({n \in 1..nnz : Ai[n] = r - 1})])
        \* cumulative sum of the counts; Bp[n_row] = nnz
        start  == Array([r \in 1..(n_row + 1) |->
                     IF r = n_row + 1 THEN nnz
                     ELSE SumSeq(SubSeq(count, 1, r - 1))])
        filled == coo_tocsr_fill(1, Ai, Aj, Ax,
                     [Bp |-> start, Bj |-> <<>>, Bx |-> <<>>])
        \* the last loop: Bp[i] takes the value Bp[i-1] had, Bp[0] = 0
        Bp     == Array([r \in 1..(n_row + 1) |->
                     IF r = 1 THEN 0 ELSE filled.Bp[r - 1]])
    IN  [Bp |-> Bp, Bj |-> filled.Bj, Bx |-> filled.Bx]

\* scipy.sparse._sparsetools.coo_matvec(nnz, Ai, Aj, Ax, Xx, Yx):
\* Yx[Ai[n]] += Ax[n] * Xx[Aj[n]] for n = 0..nnz-1
RECURSIVE coo_matvec_from(_, _, _, _, _, _, _)
coo_matvec_from(n, nnz, Ai, Aj, Ax, Xx, Yx) ==
    IF n > nnz THEN Yx
    ELSE coo_matvec_from(n + 1, nnz, Ai, Aj, Ax, Xx,
             [Yx EXCEPT ![Ai[n] + 1] = @ + Ax[n] * At(Xx, Aj[n])])

\* mutant: Yx[Ai[n]] = Ax[n] * Xx[Aj[n]] (assignment in place of +=)
RECURSIVE coo_matvec_assign_from(_, _, _, _, _, _, _)
coo_matvec_assign_from(n, nnz, Ai, Aj, Ax, Xx, Yx) ==
    IF n > nnz THEN Yx
    ELSE coo_matvec_assign_from(n + 1, nnz, Ai, Aj, Ax, Xx,
             [Yx EXCEPT ![Ai[n] + 1] = Ax[n] * At(Xx, Aj[n])])

coo_matvec_assign(nnz, Ai, Aj, Ax, Xx, Yx) ==
    coo_matvec_assign_from(1, nnz, Ai, Aj, Ax, Xx, Yx)

coo_matvec(nnz, Ai, Aj, Ax, Xx, Yx) == coo_matvec_from(1, nnz, Ai, Aj, Ax, Xx, Yx)

\* mutant: only the first stored entry of the row is used
csr_row_dot_first(lo, hi, Aj, Ax, Xx) ==
    IF lo >= hi THEN 0 ELSE At(Ax, lo) * At(Xx, At(Aj, lo))

\* sum of Ax[jj] * Xx[Aj[jj]] for jj = lo..hi-1
RECURSIVE csr_row_dot(_, _, _, _, _)
csr_row_dot(lo, hi, Aj, Ax, Xx) ==
    IF lo >= hi THEN 0
    ELSE At(Ax, lo) * At(Xx, At(Aj, lo)) + csr_row_dot(lo + 1, hi, Aj, Ax, Xx)

\* scipy.sparse._sparsetools.csr_matvec(n_row, n_col, Ap, Aj, Ax, Xx, Yx)
csr_matvec(n_row, n_col, Ap, Aj, Ax, Xx, Yx) ==
    Array([i \in 1..n_row |->
        Yx[i] + csr_row_dot(Ap[i], Ap[i + 1], Aj, Ax, Xx)])

\* scipy.sparse._sparsetools.csr_matvecs(n_row, n_col, n_vecs, Ap, Aj, Ax, Xx, Yx)
\* on row-major flattened operands: y = Yx + n_vecs*i, x = Xx + n_vecs*j,
\* y[k] += a * x[k]
RECURSIVE csr_row_axpy(_, _, _, _, _, _, _)
csr_row_axpy(lo, hi, n_vecs, Aj, Ax, Xx, k) ==
    IF lo >= hi THEN 0
    ELSE At(Ax, lo) * At(Xx, n_vecs * At(Aj, lo) + k)
         + csr_row_axpy(lo + 1, hi, n_vecs, Aj, Ax, Xx, k)

csr_matvecs(n_row, n_col, n_vecs, Ap, Aj, Ax, Xx, Yx) ==
    Array([q \in 1..(n_row * n_vecs) |->
        LET i == (q - 1) \div n_vecs
            k == (q - 1) % n_vecs
        IN  Yx[q] + csr_row_axpy(At(Ap, i), At(Ap, i + 1), n_vecs, Aj, Ax, Xx, k)])

(***************************************************************************)
(* Dense arrays: [ndim, data].  A rank 1 array holds a sequence, a rank 2  *)
(* array a sequence of rows, a rank 0 array a number; an array of rank 3   *)
(* or more holds a sequence of arrays of the rank below.                   *)
(***************************************************************************)
Tensor(ndim, data) == [ndim |-> ndim, data |-> data]

\* other.T[k]: column k of a rank 2 array
Column(m, k) == Array([j \in 1..Len(m) |-> m[j][k]])

\* a.ravel() of a C-ordered rank 2 array
Ravel(m) == Concat(m)

\* the rows of a flat array with n_vecs entries per row
Unravel(flat, n_rows, n_vecs) ==
    Array([i \in 1..n_rows |-> SubSeq(flat, (i - 1) * n_vecs + 1, i * n_vecs)])

\* number of columns of a rank 2 array with n rows: other.shape[-1]
LastDim(m) == IF m = <<>> THEN 0 ELSE Len(m[1])

(***************************************************************************)
(* NumPyBackend.coo_tocsr(indices, values, shape).                         *)
(***************************************************************************)
coo_tocsr(indices, values, shape) ==
    LET M     == shape[1]
        N     == shape[2]
        major == indices[1]
        minor == indices[2]
        nnz   == Len(values)
        \* crow, col, data are np.empty arrays the kernel writes into
        out   == sparsetools_coo_tocsr(M, N, nnz, major, minor, values)
    IN  <<out.Bp, Filled(out.Bj, Len(minor)), Filled(out.Bx, Len(values))>>

(***************************************************************************)
(* NumPyBackend.coo_spmm(indices, values, shape, other).                   *)
(***************************************************************************)
BatchMsg == "Batch sparse matrix multiplication has not been supported yet."
\* the message of the code, without the quotes around the word other
OtherRankMsg == "other must be a 1-D or 2-D array."

coo_spmm(indices, values, shape, other) ==
    LET nnz == Len(values.data)
        row == indices[1]
        col == indices[2]
    IN  IF values.ndim = 1
        THEN IF other.ndim = 1
             THEN Value(coo_matvec(nnz, row, col, values.data, other.data,
                                   Zeros(shape[1])))
             ELSE IF other.ndim = 2
             THEN LET K  == LastDim(other.data)
                      \* rT[i] = column i of result, filled from column i of other
                      rT == Array([k \in 1..K |->
                                coo_matvec(nnz, row, col, values.data,
                                           Column(other.data, k), Zeros(shape[1]))])
                  IN  Value(Array([r \in 1..shape[1] |->
                                Array([k \in 1..K |-> rT[k][r]])]))
             ELSE Raise("ValueError", OtherRankMsg)
        ELSE Raise("NotImplementedError", BatchMsg)

(***************************************************************************)
(* NumPyBackend.csr_spmm(crow, col, values, shape, other).                 *)
(***************************************************************************)
\* mutant: no check of the rank of other; an operand of rank 3 or more is
\* read as the rank 2 array other[0]
csr_spmm_norankcheck(crow, col, values, shape, other) ==
    LET M == shape[1]
        N == shape[2]
        RECURSIVE First2D(_, _)
        First2D(r, d) == IF r <= 2 THEN d ELSE First2D(r - 1, d[1])
    IN  IF values.ndim = 1
        THEN IF other.ndim = 1
             THEN Value(csr_matvec(M, N, crow, col, values.data, other.data,
                                   Zeros(shape[1])))
             ELSE IF other.ndim >= 2
             THEN LET m      == First2D(other.ndim, other.data)
                      n_vecs == LastDim(m)
                  IN  Value(Unravel(
                          csr_matvecs(M, N, n_vecs, crow, col, values.data,
                                      Ravel(m), Zeros(shape[1] * n_vecs)),
                          shape[1], n_vecs))
             ELSE Raise("ValueError", OtherRankMsg)
        ELSE Raise("NotImplementedError", BatchMsg)

csr_spmm(crow, col, values, shape, other) ==
    LET M == shape[1]
        N == shape[2]
    IN  IF values.ndim = 1
        THEN IF other.ndim = 1
             THEN Value(csr_matvec(M, N, crow, col, values.data, other.data,
                                   Zeros(shape[1])))
             ELSE IF other.ndim = 2
             THEN LET n_vecs == LastDim(other.data)
                  IN  Value(Unravel(
                          csr_matvecs(M, N, n_vecs, crow, col, values.data,
                                      Ravel(other.data), Zeros(shape[1] * n_vecs)),
                          shape[1], n_vecs))
             ELSE Raise("ValueError", OtherRankMsg)
        ELSE Raise("NotImplementedError", BatchMsg)

(***************************************************************************)
(* scipy.sparse._sparsetools.csr_matmat, the kernel behind                 *)
(* csr_matrix._matmul_sparse: per row of A, the products are accumulated   *)
(* in sums[k], the touched columns k are chained through next[] from head, *)
(* and the chain is then emitted (most recently touched column first),     *)
(* skipping the columns whose sum is zero.                                 *)
(***************************************************************************)
\* mutant: the products of one row overwrite each other (sums[k] = v*Bx[kk])
RECURSIVE csr_matmat_inner_overwrite(_, _, _, _, _, _)
csr_matmat_inner_overwrite(kk, hi, v, Bj, Bx, st) ==
    IF kk >= hi THEN st
    ELSE LET k      == At(Bj, kk)
             linked == At(st.next, k) # -1
         IN  csr_matmat_inner_overwrite(kk + 1, hi, v, Bj, Bx,
                 [sums   |-> [st.sums EXCEPT ![k + 1] = v * At(Bx, kk)],
                  next   |-> IF linked THEN st.next
                             ELSE [st.next EXCEPT ![k + 1] = st.head],
                  head   |-> IF linked THEN st.head ELSE k,
                  length |-> IF linked THEN st.length ELSE st.length + 1])

\* for kk in Bp[j]..Bp[j+1]-1: sums[k] += v*Bx[kk]; link k if next[k] = -1
RECURSIVE csr_matmat_inner(_, _, _, _, _, _)
csr_matmat_inner(kk, hi, v, Bj, Bx, st) ==
    IF kk >= hi THEN st
    ELSE LET k      == At(Bj, kk)
             linked == At(st.next, k) # -1
         IN  csr_matmat_inner(kk + 1, hi, v, Bj, Bx,
                 [sums   |-> [st.sums EXCEPT ![k + 1] = @ + v * At(Bx, kk)],
                  next   |-> IF linked THEN st.next
                             ELSE [st.next EXCEPT ![k + 1] = st.head],
                  head   |-> IF linked THEN st.head ELSE k,
                  length |-> IF linked THEN st.length ELSE st.length + 1])

\* for jj in Ap[i]..Ap[i+1]-1: j = Aj[jj]; v = Ax[jj]; inner loop over row j of B
RECURSIVE csr_matmat_outer(_, _, _, _, _, _, _, _)
csr_matmat_outer(jj, hi, Aj, Ax, Bp, Bj, Bx, st) ==
    IF jj >= hi THEN st
    ELSE LET j == At(Aj, jj)
         IN  csr_matmat_outer(jj + 1, hi, Aj, Ax, Bp, Bj, Bx,
                 csr_matmat_inner(At(Bp, j), At(Bp, j + 1), At(Ax, jj), Bj, Bx, st))

\* for jj in 0..length-1: if sums[head] != 0, append (head, sums[head]);
\* then unlink head
RECURSIVE csr_matmat_emit(_, _, _, _)
csr_matmat_emit(left, head, st, out) ==
    IF left = 0 THEN out
    ELSE LET keep == At(st.sums, head) # 0
         IN  csr_matmat_emit(left - 1, At(st.next, head), st,
                 [Cj |-> IF keep THEN Append(out.Cj, head) ELSE out.Cj,
                  Cx |-> IF keep THEN Append(out.Cx, At(st.sums, head)) ELSE out.Cx])

\* the loop over the rows i of A; next[] and sums[] are reset after each row
RECURSIVE csr_matmat_rows(_, _, _, _, _, _, _, _, _, _)
csr_matmat_rows(i, n_row, n_col, Ap, Aj, Ax, Bp, Bj, Bx, acc) ==
    IF i >= n_row THEN acc
    ELSE LET st  == csr_matmat_outer(At(Ap, i), At(Ap, i + 1), Aj, Ax, Bp, Bj, Bx,
                        [sums   |-> Zeros(n_col),
                         next   |-> Array([k \in 1..n_col |-> -1]),
                         head   |-> -2,
                         length |-> 0])
             out == csr_matmat_emit(st.length, st.head, st,
                        [Cj |-> acc.Cj, Cx |-> acc.Cx])
         IN  csr_matmat_rows(i + 1, n_row, n_col, Ap, Aj, Ax, Bp, Bj, Bx,
                 [Cp |-> Append(acc.Cp, Len(out.Cj)), Cj |-> out.Cj, Cx |-> out.Cx])

csr_matmat(n_row, n_col, Ap, Aj, Ax, Bp, Bj, Bx) ==
    csr_matmat_rows(0, n_row, n_col, Ap, Aj, Ax, Bp, Bj, Bx,
        [Cp |-> <<0>>, Cj |-> <<>>, Cx |-> <<>>])

(***************************************************************************)
(* NumPyBackend.csr_spspmm(crow1, col1, values1, shape1,                   *)
(*                         crow2, col2, values2, shape2).                  *)
(***************************************************************************)
csr_spspmm(crow1, col1, values1, shape1, crow2, col2, values2, shape2) ==
    LET \* m3 = m1._matmul_sparse(m2): shape (M, N) from M, _ = m1.shape and
        \* _, N = m2.shape
        M  == shape1[1]
        N  == shape2[2]
        m3 == csr_matmat(M, N, crow1, col1, values1, crow2, col2, values2)
    IN  <<m3.Cp, m3.Cj, m3.Cx, <<M, N>> >>

(***************************************************************************)
(* Inputs of the finite-element kernels: barycentric points with TD+1      *)
(* coordinates k/D summing to 1 (one coordinate may be negative: the point *)
(* then lies outside the simplex, on its affine hull).                     *)
(***************************************************************************)
BcPoints(TD) ==
    UNION { { Array([i \in 1..(TD + 1) |-> Rat(k[i], D)]) :
                k \in { f \in [1..(TD + 1) -> -1..BcDen] : SumSeq(f) = D } } :
            D \in 1..BcDen }

(***************************************************************************)
(* Inputs of the sparse kernels.  A COO matrix is (indices = <<row, col>>, *)
(* values, shape): the entries come in any order and may repeat a (row,    *)
(* col) pair; every index lies inside the shape.                           *)
(***************************************************************************)
Dims == 1..MaxDim

CooValues(nnz) ==
    { Array([k \in 1..nnz |-> k]),
      Array([k \in 1..nnz |-> IF k % 2 = 1 THEN 2 ELSE -2]) }

CooOfShape(M, N) ==
    UNION { { [indices |-> <<Array(row), Array(col)>>, values |-> v, shape |-> <<M, N>>] :
                row \in [1..nnz -> 0..(M - 1)],
                col \in [1..nnz -> 0..(N - 1)],
                v \in CooValues(nnz) } :
            nnz \in 0..MaxNnz }

CooInputs == UNION { CooOfShape(M, N) : M \in Dims, N \in Dims }

\* a few fixed matrices of a given shape: all ones, every row aimed at
\* column 0 (rows listed last to first), and pairs of repeated entries
CooFixed(M, N) ==
    { [indices |-> <<Array([q \in 1..(M * N) |-> (q - 1) \div N]),
                     Array([q \in 1..(M * N) |-> (q - 1) % N])>>,
       values |-> Array([q \in 1..(M * N) |-> 1]),
       shape |-> <<M, N>>],
      [indices |-> <<Array([q \in 1..M |-> M - q]), Zeros(M)>>,
       values |-> Array([q \in 1..M |-> M - q + 1]),
       shape |-> <<M, N>>],
      [indices |-> <<Array([q \in 1..(2 * M) |-> (q - 1) % M]),
                     Array([q \in 1..(2 * M) |-> N - 1])>>,
       values |-> Array([q \in 1..(2 * M) |-> IF q <= M THEN 2 ELSE -q]),
       shape |-> <<M, N>>] }

\* rank 1 operands of length N: the unit vectors and one vector without zeros
VecOperands(N) ==
    { Array([j \in 1..N |-> IF j = e THEN 1 ELSE 0]) : e \in 1..N }
        \cup { Array([j \in 1..N |-> 2 * j - 3]) }

\* rank 2 operands of shape (N, K): column k is a rank 1 operand rotated by
\* k-1 places
MatOperands(N) ==
    { Array([j \in 1..N |-> Array([k \in 1..K |-> x[((j + k - 2) % N) + 1]])]) :
        x \in VecOperands(N), K \in 1..MaxVecs }

\* an operand of rank r >= 3: shape (1, ..., 1, N, 1)
RECURSIVE Stacked(_, _)
Stacked(r, m) == IF r <= 2 THEN m ELSE <<Stacked(r - 1, m)>>

OtherOperands(N) ==
    { Tensor(1, x) : x \in VecOperands(N) }
        \cup { Tensor(2, m) : m \in MatOperands(N) }
        \cup { Tensor(0, 1) }
        \cup { Tensor(r, Stacked(r, Array([j \in 1..N |-> <<j>>]))) : r \in 3..MaxRank }

\* one operand of each rank
OneOtherPerRank(N) ==
    { Tensor(1, Array([j \in 1..N |-> 2 * j - 3])),
      Tensor(2, Array([j \in 1..N |-> <<j>>])),
      Tensor(0, 1) }
        \cup { Tensor(r, Stacked(r, Array([j \in 1..N |-> <<j>>]))) : r \in 3..MaxRank }

(***************************************************************************)
(* Geometry kernels: simplex_measure, edge_normal, triangle_grad_lambda_2d.*)
(* A node array is a sequence of points with integer coordinates, an       *)
(* entity array a sequence of cells, each a sequence of 0-based node       *)
(* indices.                                                                *)
(***************************************************************************)
\* largest coordinate of a mesh node
MaxCoord == 1

\* the mutant of factorial: TD in place of TD!
factorial_linear(n) == n

RECURSIVE factorial(_)
factorial(n) == IF n <= 1 THEN 1 ELSE n * factorial(n - 1)

\* node[cell, :]
Take(node, cell) == Array([k \in 1..Len(cell) |-> At(node, cell[k])])

\* node[entity, :]
TakeAll(node, entity) == Array([c \in 1..Len(entity) |-> Take(node, entity[c])])

VSub(a, b) == Array([k \in 1..Len(a) |-> a[k] - b[k]])

\* M without its first row and its column j
Minor(M, j) ==
    Array([r \in 1..(Len(M) - 1) |->
        Array([c \in 1..(Len(M) - 1) |->
            IF c < j THEN M[r + 1][c] ELSE M[r + 1][c + 1]])])

\* mutant: the expansion of det without the alternating signs
RECURSIVE det_unsigned(_)
det_unsigned(M) ==
    IF Len(M) = 1 THEN M[1][1]
    ELSE SumSeq(Array([j \in 1..Len(M) |->
             M[1][j] * det_unsigned(Minor(M, j))]))

\* numpy.linalg.det of a square matrix, in exact arithmetic
RECURSIVE det(_)
det(M) ==
    IF Len(M) = 1 THEN M[1][1]
    ELSE SumSeq(Array([j \in 1..Len(M) |->
             (IF j % 2 = 1 THEN 1 ELSE -1) * M[1][j] * det(Minor(M, j))]))

\* points[..., 1:, :] - points[..., :-1, :] of one cell
consecutive_edges(points) ==
    Array([k \in 1..(Len(points) - 1) |-> VSub(points[k + 1], points[k])])

DimMsg == "The geometric dimension of points must be NVC-1to form a simplex."

simplex_measure(entity, node) ==
    LET points == TakeAll(node, entity)
        TD == Len(points[1]) - 1
    IN  IF TD # Len(points[1][1])
        THEN Raise("RuntimeError", DimMsg)
        ELSE Value(Array([c \in 1..Len(points) |->
                 Rat(det(consecutive_edges(points[c])), factorial(TD))]))

\* the mutant of edge_normal: it lets points of more than two coordinates by
edge_normal_atleast2d(edge, node) ==
    LET points == TakeAll(node, edge)
    IN  IF Len(points[1][1]) < 2
        THEN Raise("ValueError", "Only 2D meshes are supported.")
        ELSE Value(Array([c \in 1..Len(points) |->
                 LET edges == VSub(points[c][2], points[c][1])
                 IN  <<edges[2], -edges[1]>>]))

\* edge_normal with unit = False and out = None, the defaults
edge_normal(edge, node) ==
    LET points == TakeAll(node, edge)
    IN  IF Len(points[1][1]) # 2
        THEN Raise("ValueError", "Only 2D meshes are supported.")
        ELSE Value(Array([c \in 1..Len(points) |->
                 LET edges == VSub(points[c][2], points[c][1])
                 IN  <<edges[2], -edges[1]>>]))

\* the floating point values that are not numbers: an infinity (of either
\* sign) and NaN; a finite value <<n, d>> has d > 0
Inf == <<1, 0>>
NaN == <<0, 0>>

\* the mutant of true_divide: a zero divisor is taken for one
true_divide_guarded(x, y) == IF y = 0 THEN RInt(x) ELSE Rat(x, y)

\* x / y of numpy: no exception for y = 0, the quotient is inf or nan
true_divide(x, y) ==
    IF y = 0 THEN (IF x = 0 THEN NaN ELSE Inf) ELSE Rat(x, y)

triangle_grad_lambda_2d(tri, node) ==
    LET points == TakeAll(node, tri)
    IN  Value(Array([c \in 1..Len(points) |->
            LET e0 == VSub(points[c][3], points[c][2])
                e1 == VSub(points[c][1], points[c][3])
                e2 == VSub(points[c][2], points[c][1])
                nv == det(<<e0, e1>>)
                result == <<Reverse(e0), Reverse(e1), Reverse(e2)>>
            IN  Array([i \in 1..3 |->
                    << true_divide(-result[i][1], nv),
                       true_divide(result[i][2], nv) >>])]))

\* geometric dimensions of the node arrays, vertices per cell
GDs == {1, 2, 3}
NVCs == {2, 3, 4}

RECURSIVE Pow(_, _)
Pow(b, e) == IF e = 0 THEN 1 ELSE b * Pow(b, e - 1)

\* the nodes of the grid {0..MaxCoord}^GD, the last coordinate running first
GridNodes(GD) ==
    Array([k \in 1..Pow(MaxCoord + 1, GD) |->
        Array([d \in 1..GD |->
            ((k - 1) \div Pow(MaxCoord + 1, GD - d)) % (MaxCoord + 1)])])

\* the cells of NVC vertices over NN nodes
Cells(NVC, NN) == { Array(c) : c \in [1..NVC -> 0..(NN - 1)] }

\* the cells a call of simplex_measure is made with: in three dimensions the
\* first vertex is node 0
MeasureCells(NVC, GD) ==
    IF GD < 3 THEN Cells(NVC, Pow(MaxCoord + 1, GD))
    ELSE { c \in Cells(NVC, Pow(MaxCoord + 1, GD)) : c[1] = 0 }

(***************************************************************************)
(* vmap.  The arrays given to a vectorized function have two axes and are  *)
(* sequences of rows.  The wrapped function is one of a few named          *)
(* functions of one-dimensional slices.  The outcome of a call carries, in *)
(* the field invoked, the arguments the wrapped function was invoked with. *)
(***************************************************************************)
\* largest number of rows and of columns of an array given to vmap
MaxSide == 2

Invoking(r, inv) ==
    IF r.kind = "value"
    THEN [kind |-> "value", val |-> r.val, invoked |-> inv]
    ELSE [kind |-> "raise", exc |-> r.exc, msg |-> r.msg, invoked |-> inv]

\* func(*slices): the wrapped function applied to one slice per array
ApplyFunc(func, slices) ==
    LET x == slices[1]
    IN  CASE func = "double" ->
                 [tuple |-> FALSE,
                  val |-> Array([k \in 1..Len(x) |-> 2 * x[k]])]
          [] func = "add" ->
                 [tuple |-> FALSE,
                  val |-> Array([k \in 1..Len(x) |-> x[k] + slices[2][k]])]
          [] func = "double_and_negate" ->
                 [tuple |-> TRUE,
                  val |-> << Array([k \in 1..Len(x) |-> 2 * x[k]]),
                             Array([k \in 1..Len(x) |-> -x[k]]) >>]

\* a negative axis counts from the last one
NormAxis(axis, ndim) == IF axis < 0 THEN axis + ndim ELSE axis

\* np.unstack(arr, axis=axis) of an array of two axes
unstack(arr, axis) ==
    IF NormAxis(axis, 2) = 0 THEN arr
    ELSE Array([j \in 1..Len(arr[1]) |->
             Array([i \in 1..Len(arr) |-> arr[i][j]])])

\* the mutant of stack: the slices always become the rows
stack_rows(slices, axis) == slices

\* np.stack(slices, axis=axis) of one-dimensional slices of one length
stack(slices, axis) ==
    IF NormAxis(axis, 2) = 0 THEN slices
    ELSE Array([i \in 1..Len(slices[1]) |->
             Array([j \in 1..Len(slices) |-> slices[j][i]])])

MinLen(lists) ==
    CHOOSE n \in { Len(lists[k]) : k \in 1..Len(lists) } :
        \A k \in 1..Len(lists) : n <= Len(lists[k])

\* zip(*lists): the tuples of the elements at one position
Zip(lists) ==
    Array([n \in 1..MinLen(lists) |->
        Array([k \in 1..Len(lists) |-> lists[k][n]])])

\* the function vmap returns, called with arrays as its arguments
vectorized(closure, args) ==
    LET arr_lists == Array([k \in 1..Len(args) |-> unstack(args[k], closure.in_axes)])
        invoked == Zip(arr_lists)
        results == Array([n \in 1..Len(invoked) |-> ApplyFunc(closure.func, invoked[n])])
    IN  IF results[1].tuple
        THEN Invoking(Value(Array([q \in 1..Len(results[1].val) |->
                 stack(Array([n \in 1..Len(results) |-> results[n].val[q]]),
                       closure.in_axes)])), invoked)
        ELSE Invoking(Value(stack(Array([n \in 1..Len(results) |-> results[n].val]),
                                  closure.in_axes)), invoked)

AxesMsg == "Only support in_axes == out_axes with numpy backend"

\* the mutant of vmap: out_axes is not looked at
vmap_unchecked(func, in_axes, out_axes) ==
    Invoking(Value([fn |-> "vectorized", func |-> func, in_axes |-> in_axes]), <<>>)

vmap(func, in_axes, out_axes) ==
    IF in_axes # out_axes
    THEN Invoking(Raise("ValueError", AxesMsg), <<>>)
    ELSE Invoking(Value([fn |-> "vectorized", func |-> func,
                         in_axes |-> in_axes]), <<>>)

\* the functions given to vmap, with the number of arrays each one takes
Funcs == {"double", "add", "double_and_negate"}
Arity(func) == IF func = "add" THEN 2 ELSE 1

\* the values of in_axes and out_axes
Axes == {0, 1, -1}

\* the array of R rows and C columns whose entries count from first, in steps
\* of step
Iota(R, C, first, step) ==
    Array([i \in 1..R |-> Array([j \in 1..C |-> first + step * (C * (i - 1) + j - 1)])])

\* the arrays of one shape
ArraysOf(R, C) == { Iota(R, C, 0, 1), Iota(R, C, 1, -1), Iota(R, C, 1, 0) }

\* the argument lists of a vectorized function of n arrays: arrays of one
\* shape, of at most MaxSide rows and columns or of shape (4, 3)
VmapArgs(n) ==
    UNION { { Array(a) : a \in [1..n -> ArraysOf(shp[1], shp[2])] } :
            shp \in ((1..MaxSide) \X (1..MaxSide)) \cup {<<4, 3>>} }

(***************************************************************************)
(* Array creation and the device argument; the operations that are not     *)
(* implemented.  Keyword arguments are functions from keyword names to     *)
(* values; the array a creation function returns is not looked into.       *)
(***************************************************************************)
\* Python's None
None == "None"

\* an array on the cpu
NdArray == "ndarray"

\* the creation functions wrapped when numpy is older than 2.0.0, and the
\* ones always wrapped
WrappedBelow2 ==
    {"arange", "asarray", "empty", "empty_like", "eye", "full", "full_like",
     "linspace", "ones", "ones_like", "zeros", "zeros_like"}
WrappedAlways == {"array", "tensor"}

\* np.<name>(..., **kwargs): numpy older than 2 knows no keyword device;
\* numpy 2 takes device = None or "cpu" (np.array takes no device at all)
np_creation(np_major, name, kwargs) ==
    IF "device" \notin DOMAIN kwargs THEN Value(NdArray)
    ELSE IF np_major < 2 \/ name \in WrappedAlways
         THEN Raise("TypeError", "unexpected keyword argument 'device'")
    ELSE IF kwargs["device"] \notin {None, "cpu"}
         THEN Raise("ValueError", "Device not understood. Only cpu is allowed.")
    ELSE Value(NdArray)

\* kwargs.pop('device') when 'device' is in kwargs
remove_device(kwargs) ==
    [k \in DOMAIN kwargs \ {"device"} |-> kwargs[k]]

\* NumPyBackend.<name>(..., **kwargs)
creation(np_major, name, kwargs) ==
    IF np_major < 2 \/ name \in WrappedAlways
    THEN np_creation(np_major, name, remove_device(kwargs))
    ELSE np_creation(np_major, name, kwargs)

device_put(tensor_like, device) ==
    IF device \notin {None, "cpu"}
    THEN Raise("NotImplementedError", "only cpu device is supported by NumPyBackend ")
    ELSE Value(tensor_like)

\* (the message without its quotation marks)
set_default_device ==
    Raise("NotImplementedError", "set_default_device is not supported by NumPyBackend")
scatter == Raise("NotImplementedError", "")
scatter_add == Raise("NotImplementedError", "")
simplex_hess_shape_function == Raise("NotImplementedError", "")
tensor_measure == Raise("NotImplementedError", "")
\* the body is pass: the call returns None
quadrangle_grad_lambda_2d == Value(None)

Unimplemented(name) ==
    CASE name = "set_default_device" -> set_default_device
      [] name = "scatter" -> scatter
      [] name = "scatter_add" -> scatter_add
      [] name = "simplex_hess_shape_function" -> simplex_hess_shape_function
      [] name = "tensor_measure" -> tensor_measure
      [] name = "quadrangle_grad_lambda_2d" -> quadrangle_grad_lambda_2d

\* the versions of numpy the adapter is loaded with (major version numbers)
NpMajors == {1, 2}

\* the values given for the keyword device
Devices == {None, "cpu", "cuda", "meta"}

\* keyword arguments of a creation call: dtype or not, device or not
NoKwargs == [k \in {} |-> None]
CreationKwargs ==
    {NoKwargs, [k \in {"dtype"} |-> "float64"]}
    \cup { [k \in {"device"} |-> d] : d \in Devices }
    \cup { [k \in {"dtype", "device"} |-> IF k = "dtype" THEN "float64" ELSE d] :
           d \in Devices }

UnimplementedNames ==
    {"set_default_device", "scatter", "scatter_add",
     "simplex_hess_shape_function", "tensor_measure",
     "quadrangle_grad_lambda_2d"}

(***************************************************************************)
(* The threads of the process.  Each thread selects an engine and runs     *)
(* computations, which dispatch their canonical operations to the active   *)
(* engine one after the other; each thread seeds and draws from the random *)
(* submodule of the NumPy backend.                                         *)
(***************************************************************************)
Threads == {"t1", "t2"}

\* the engines the tests select
Engines == {"numpy", "pytorch", "jax"}

\* largest number of canonical operations one computation dispatches
MaxOps == 2
\* largest seed given to the random submodule
MaxSeed == 2
\* largest number of draws from one seeding of a generator
MaxDraws == 2

NoJob == [busy |-> FALSE, left |-> 0, selected |-> "none", used |-> {}]

\* the mutant of set_backend: one active engine for the whole process
set_backend_global(active, t, name) ==
    IF name \notin Engines THEN active ELSE [u \in Threads |-> name]

\* bm.set_backend(name) called by thread t: the active engine of t; a name
\* that is not registered changes nothing (the call fails)
set_backend(active, t, name) ==
    IF name \notin Engines THEN active ELSE [active EXCEPT ![t] = name]

\* a generator seeded from the operating system (seed 0) at import
DefaultGenerator == [seed |-> 0, k |-> 0]

\* np.random.seed(seed): the generator of the numpy module starts again
np_random_seed(generator, seed) == [seed |-> seed, k |-> 0]

\* the value of a draw: the k-th value of kind of the stream of the seed
np_random_value(generator, kind) ==
    [kind |-> kind, seed |-> generator.seed, k |-> generator.k]

\* the generator after a draw
np_random_advance(generator) == [generator EXCEPT !.k = @ + 1]

\* the names given to set_backend: the engines and one that is not registered
BackendNames == Engines \cup {"mindspore"}

\* the drawing functions of the random submodule
DrawKinds == {"rand", "randint", "randn"}

(***************************************************************************)
(* unique along axis 0 of an array of two axes (a sequence of rows).       *)
(***************************************************************************)
\* largest number of rows of an array given to unique
MaxRows == 3

\* the order in which numpy sorts the rows: lexicographic
RowLess(x, y) ==
    \E k \in 1..Len(x) : x[k] < y[k] /\ \A q \in 1..(k - 1) : x[q] = y[q]

\* the mutant of InsertStable: index i goes before the rows equal to its own
RECURSIVE InsertFirst(_, _, _)
InsertFirst(a, perm, i) ==
    IF perm = <<>> THEN <<i>>
    ELSE IF ~RowLess(At(a, Head(perm)), At(a, i)) THEN <<i>> \o perm
    ELSE <<Head(perm)>> \o InsertFirst(a, Tail(perm), i)

\* index i put into the sorted permutation perm, after the rows equal to its own
RECURSIVE InsertStable(_, _, _)
InsertStable(a, perm, i) ==
    IF perm = <<>> THEN <<i>>
    ELSE IF RowLess(At(a, i), At(a, Head(perm))) THEN <<i>> \o perm
    ELSE <<Head(perm)>> \o InsertStable(a, Tail(perm), i)

\* perm = ar.argsort(kind='mergesort'): a stable sort of the row indices
RECURSIVE argsort_upto(_, _)
argsort_upto(a, n) ==
    IF n = 0 THEN <<>>
    ELSE InsertStable(a, argsort_upto(a, n - 1), n - 1)

argsort(a) == argsort_upto(a, Len(a))

\* the positions (from 1) of a sequence of booleans that hold TRUE
RECURSIVE Nonzero(_, _)
Nonzero(mask, k) ==
    IF k > Len(mask) THEN <<>>
    ELSE (IF mask[k] THEN <<k>> ELSE <<>>) \o Nonzero(mask, k + 1)

\* np.unique(a, return_index=True, return_inverse=True, return_counts=True,
\* axis=0): sort, keep the first row of every run of equal rows
np_unique(a) ==
    LET n == Len(a)
        perm == argsort(a)
        aux == Array([k \in 1..n |-> At(a, perm[k])])
        mask == Array([k \in 1..n |-> k = 1 \/ aux[k] # aux[k - 1]])
        first == Nonzero(mask, 1)
        m == Len(first)
        \* imask = np.cumsum(mask) - 1
        imask == Array([k \in 1..n |->
                     Cardinality({q \in 1..k : mask[q]}) - 1])
        \* inv_idx[perm] = imask
        place(i) == CHOOSE k \in 1..n : perm[k] = i
    IN  << Array([j \in 1..m |-> aux[first[j]]]),
           Array([j \in 1..m |-> perm[first[j]]]),
           Array([i \in 1..n |-> imask[place(i - 1)]]),
           Array([j \in 1..m |->
               (IF j = m THEN n + 1 ELSE first[j + 1]) - first[j]]) >>

\* indices1 = np.zeros_like(indices0); indices1[inverse] = range(n): the
\* assignments are made in the order of the indices, the last one stays
unique_all_(a) ==
    LET u == np_unique(a)
        n == Len(a)
    IN  << u[1], u[2],
           Array([j \in 1..Len(u[2]) |->
               CHOOSE i \in 0..(n - 1) :
                   /\ At(u[3], i) = j - 1
                   /\ \A q \in (i + 1)..(n - 1) : At(u[3], q) # j - 1]),
           u[3], u[4] >>

\* unique of the pytorch and jax engines, as the specification describes it:
\* the distinct rows in sorted order, the first occurrence of each, the
\* position of every row of a among them, and the number of its occurrences
RECURSIVE SortedRows(_)
SortedRows(rows) ==
    IF rows = {} THEN <<>>
    ELSE LET least == CHOOSE x \in rows : \A y \in rows : ~RowLess(y, x)
         IN  <<least>> \o SortedRows(rows \ {least})

engine_unique(a) ==
    LET n == Len(a)
        b == SortedRows({ a[i] : i \in 1..n })
        where(j) == { i \in 0..(n - 1) : At(a, i) = b[j] }
    IN  << b,
           Array([j \in 1..Len(b) |->
               CHOOSE i \in where(j) : \A q \in where(j) : i <= q]),
           Array([i \in 1..n |-> (CHOOSE j \in 1..Len(b) : b[j] = a[i]) - 1]),
           Array([j \in 1..Len(b) |-> Cardinality(where(j))]) >>

\* bm.unique(a, return_index=True, return_inverse=True, return_counts=True,
\* axis=0) under the active backend
unique(backend, a) ==
    IF backend = "numpy" THEN np_unique(a) ELSE engine_unique(a)

\* the array of the test of unique
TestArray == << <<0, 3>>, <<2, 5>>, <<0, 3>>, <<1, 4>>, <<7, 8>>, <<1, 4>> >>

\* arrays of 1..MaxRows rows of two entries 0 or 1, and the array of the test
UniqueInputs ==
    UNION { { Array(a) : a \in [1..n -> {<<0, 0>>, <<0, 1>>, <<1, 0>>, <<1, 1>>}] } :
            n \in 1..MaxRows } \cup {TestArray}

(***************************************************************************)
(* MeshBase.multi_index_matrix(p, etype) of the jax mesh: the rows are     *)
(* computed from their index by a closed form in float64.  The floats are  *)
(* modelled by exact reals: every square root below is taken of an integer *)
(* and floored, and the float64 rounding of the cube root (about 1e-13) is *)
(* far below the distance (at least 6e-7 for idx below 10^6) between its   *)
(* argument and the next integer.                                          *)
(***************************************************************************)
\* largest degree the closed form is called with
MaxJaxP == 140

\* rows one call's slice of the result keeps
MaxRead == 20

\* idx0*(idx0 + 1)/2
Triangular(n) == (n * (n + 1)) \div 2

\* idx0*(idx0 + 1)*(idx0 + 2)/6
Tetrahedral(n) == (n * (n + 1) * (n + 2)) \div 6

\* np.floor((-1 + np.sqrt(1 + 8*m))/2) for 1 + 8*m >= 0: the largest t with
\* t(t+1)/2 <= m
tri_floor(m) ==
    CHOOSE t \in 0..m : Triangular(t) <= m /\ m < Triangular(t + 1)

\* x >= n + 1 - 1e-4 for the real root x of x^3 - x = 6*idx, which is what
\* idx0 + 1/idx0/3 computes: (n+1-e)^3 - (n+1-e) <= 6*idx with e = 1e-4 is
\* 60000*(T(n) - idx) <= 3(n+1)^2 - 1 - (3(n+1)e - e^2), the last term
\* strictly between 0 and 1
cube_reaches(idx, n) ==
    \/ Tetrahedral(n) <= idx
    \/ Tetrahedral(n) - idx <= (3 * (n + 1) * (n + 1) - 2) \div 60000

\* np.floor(idx0 + 1/idx0/3 - 1 + 1e-4)
cube_floor(idx) ==
    CHOOSE n \in 0..idx : cube_reaches(idx, n) /\ ~cube_reaches(idx, n + 1)

\* The cast of a NaN to np.int_ is left to the platform (0 on aarch64,
\* the most negative int64 on x86-64); jnp.array then keeps the low 32 bits
\* of every entry, which are these.
NanCasts == {0}

\* etype == 3, row idx of the result; nan is the outcome of the NaN casts
jax_row3(p, idx, nan) ==
    IF idx = 0 THEN <<p, 0, 0, 0>>
    ELSE LET idx0 == cube_floor(idx)
             idx1 == idx - Tetrahedral(idx0)
         IN  IF 1 + 8 * idx1 < 0
             THEN <<p - (nan + nan + nan), nan, nan, nan>>
             ELSE LET idx2 == tri_floor(idx1)
                      c3 == idx1 - Triangular(idx2)
                      c2 == idx2 - c3
                      c1 == idx0 - idx2
                  IN  <<p - (c1 + c2 + c3), c1, c2, c3>>

\* etype == 2, row idx of the result
jax_row2(p, idx) ==
    LET idx0 == tri_floor(idx)
        c2 == idx - Triangular(idx0)
        c1 == idx0 - c2
    IN  <<p - c1 - c2, c1, c2>>

\* etype == 1, row idx of the result
jax_row1(p, idx) == <<p - idx, p - (p - idx)>>

jax_ldof(p, etype) ==
    IF etype = 3 THEN ((p + 1) * (p + 2) * (p + 3)) \div 6
    ELSE IF etype = 2 THEN ((p + 1) * (p + 2)) \div 2
    ELSE p + 1

jax_row(p, etype, idx, nan) ==
    IF etype = 3 THEN jax_row3(p, idx, nan)
    ELSE IF etype = 2 THEN jax_row2(p, idx)
    ELSE jax_row1(p, idx)

\* MeshBase.multi_index_matrix(p, etype)[first : first + MaxRead]; an
\* etype other than 1, 2, 3 falls through every branch
MeshBase_multi_index_matrix(p, etype, first, nan) ==
    IF etype \notin {1, 2, 3} THEN Value(None)
    ELSE LET ldof == jax_ldof(p, etype)
             n == IF ldof - first < MaxRead THEN ldof - first ELSE MaxRead
         IN  Value(Array([k \in 1..n |-> jax_row(p, etype, first + k - 1, nan)]))

\* the degrees of the calls: the small ones and the largest
JaxDegrees == 0..MaxP \cup {MaxJaxP}

\* first rows of the slices read: the start of the matrix and the last row
\* of every level a+b+c = n-1 (etype 3) or b+c = n-1 (etype 2)
JaxFirsts(p, etype) ==
    {0} \cup
    { idx \in { (IF etype = 3 THEN Tetrahedral(n) ELSE
                 IF etype = 2 THEN Triangular(n) ELSE n) - 1 : n \in 1..p + 1 } :
        idx < jax_ldof(p, etype) }

(***************************************************************************)
(* simplex_shape_function on an array bc of shape (NQ, TD+1): every        *)
(* operation of the kernel acts on the last axes, one point at a time.     *)
(***************************************************************************)
simplex_shape_function_nd(bc, p) ==
    Array([q \in 1..Len(bc) |-> simplex_shape_function(bc[q], p)])

\* the interpolation point of multi-index mi[j]: bc = mi[j]/p
InterpolationPoint(p, TD, j) ==
    LET mi == multi_index_matrix(p, TD)
    IN  Array([i \in 1..(TD + 1) |-> Rat(mi[j][i], p)])

\* bc arrays of two interpolation points of degree p
InterpolationPairs(p, TD) ==
    LET ldof == Len(multi_index_matrix(p, TD))
    IN  { <<InterpolationPoint(p, TD, j), InterpolationPoint(p, TD, q)>> :
            j \in 1..ldof, q \in 1..ldof }

(***************************************************************************)
(* The function vmap returns, called with any positional arguments and     *)
(* keyword arguments.  A positional argument is [nd, val]: nd says whether *)
(* it is an np.ndarray, val is its entries (a scalar is the single entry   *)
(* of val); keyword arguments are a function from names to values.         *)
(***************************************************************************)
NdArg(a) == [nd |-> TRUE, val |-> a]
ScalarArg(v) == [nd |-> FALSE, val |-> << <<v>> >>]

\* func(*slices, **kwargs) for func = lambda x, *rest, factor=1: factor*x
ApplyFirstTimes(slices, kwargs) ==
    LET factor == IF "factor" \in DOMAIN kwargs THEN kwargs["factor"] ELSE 1
        x == slices[1]
    IN  Array([k \in 1..Len(x) |-> factor * x[k]])

\* mutant: every positional argument is taken for an array
ndarray_args_all(args) == Array([k \in 1..Len(args) |-> args[k].val])

\* [arr for arr in args if isinstance(arr, np.ndarray)]
RECURSIVE ndarray_args(_)
ndarray_args(args) ==
    IF args = <<>> THEN <<>>
    ELSE (IF Head(args).nd THEN <<Head(args).val>> ELSE <<>>)
             \o ndarray_args(Tail(args))

MapMsg == "map() must have at least two arguments."

\* vectorized(*args, **kwargs); invoked lists the calls of func, each with
\* its positional and its keyword arguments
vectorized_kwargs(closure, args, kwargs) ==
    LET arrs == ndarray_args(args)
        arr_lists == Array([k \in 1..Len(arrs) |-> unstack(arrs[k], closure.in_axes)])
    IN  IF arr_lists = <<>>
        THEN Invoking(Raise("TypeError", MapMsg), <<>>)
        ELSE LET calls == Zip(arr_lists)
                 results == Array([n \in 1..Len(calls) |->
                                ApplyFirstTimes(calls[n], kwargs)])
             IN  Invoking(Value(stack(results, closure.in_axes)),
                          Array([n \in 1..Len(calls) |->
                              [slices |-> calls[n], kwargs |-> kwargs]]))

\* keyword arguments of the vectorized call
VmapKwargs == { NoKwargs, [n \in {"factor"} |-> 3] }

\* positional arguments: a scalar, or an array of 1..MaxSide + 1 slices of two
\* entries along the axis
VmapArgChoices(in_axes) ==
    {ScalarArg(7)} \cup
    { NdArg(IF NormAxis(in_axes, 2) = 0 THEN Iota(n, 2, first, 1)
            ELSE Iota(2, n, first, 1)) :
        n \in 1..(MaxSide + 1), first \in {0, 10} }

\* argument lists of one, two or three positional arguments
VmapMixedArgs(in_axes) ==
    LET A == VmapArgChoices(in_axes)
    IN  { <<a>> : a \in A } \cup { <<a, b>> : a \in A, b \in A }
            \cup { <<a, b, c>> : a \in A, b \in A, c \in A }

NoArrays == <<>>
NoVmapBackend == [made |-> FALSE, vmap_func |-> "none"]

(***************************************************************************)
(* MeshDataStructure of the jax mesh.  The object is its top dimension TD  *)
(* and _entity_storage, a function from topological dimensions to arrays;  *)
(* arrays are named, their entries are not looked into.                    *)
(***************************************************************************)
_STORAGE_ATTR == {"cell", "face", "edge", "cell_location", "face_location"}

NoFaceMsg == "the mesh has no face entity."
NoFaceLocationMsg == "the mesh has no face location."

\* mutant: face and face_location without the test TD <= 1
entity_str2dim_unguarded(TD, etype) ==
    CASE etype = "cell" -> Value(TD)
      [] etype = "cell_location" -> Value(-TD)
      [] etype = "face" -> Value(TD - 1)
      [] etype = "face_location" -> Value(-TD + 1)
      [] etype = "edge" -> Value(1)
      [] etype = "node" -> Value(0)
      [] OTHER -> Raise("KeyError", etype)

\* entity_str2dim(ds, etype) for a ds of top dimension TD
entity_str2dim(TD, etype) ==
    CASE etype = "cell" -> Value(TD)
      [] etype = "cell_location" -> Value(-TD)
      [] etype = "face" ->
             IF TD <= 1 THEN Raise("ValueError", NoFaceMsg)
             ELSE Value(TD - 1)
      [] etype = "face_location" ->
             IF TD <= 1 THEN Raise("ValueError", NoFaceLocationMsg)
             ELSE Value(-TD + 1)
      [] etype = "edge" -> Value(1)
      [] etype = "node" -> Value(0)
      [] OTHER -> Raise("KeyError", etype)

\* entity_dim2array(ds, etype_dim) with index = None and no default
entity_dim2array(storage, etype_dim) ==
    IF etype_dim \in DOMAIN storage THEN Value(storage[etype_dim])
    ELSE Raise("ValueError", "is not a valid entity attribute index")

\* no MeshDataStructure has been constructed
NoMesh == [made |-> FALSE, TD |-> 0, storage |-> <<>>]

\* MeshDataStructure(NN, TD)
MeshDataStructure(TD) == [made |-> TRUE, TD |-> TD, storage |-> <<>>]

\* ds.name for a name of _STORAGE_ATTR
mesh_getattr(m, name) ==
    LET etype_dim == entity_str2dim(m.TD, name)
    IN  IF etype_dim.kind = "raise" THEN etype_dim
        ELSE entity_dim2array(m.storage, etype_dim.val)

\* self._entity_storage[etype_dim] = value
StoreAt(storage, etype_dim, value) ==
    [d \in DOMAIN storage \cup {etype_dim} |->
        IF d = etype_dim THEN value ELSE storage[d]]

\* ds.name = value for a name of _STORAGE_ATTR: the outcome and the object
mesh_setattr(m, name, value) ==
    LET etype_dim == entity_str2dim(m.TD, name)
    IN  IF etype_dim.kind = "raise" THEN [out |-> etype_dim, ds |-> m]
        ELSE [out |-> Value(None),
              ds |-> [m EXCEPT !.storage = StoreAt(@, etype_dim.val, value)]]

\* top dimensions of the meshes, and the arrays assigned to their attributes
TopDimensions == 0..3
EntityArrays == {"A", "B"}

(***************************************************************************)
(* VmapBackend of the particle solver.  The object is the vmap function it *)
(* stored; bm.backend_name is the name of the active backend.  A vmap      *)
(* function is named, the function it returns is not looked into.          *)
(***************************************************************************)
UnsupportedMsg == "Unsupported backend: "

\* mutant: a backend that is not supported falls back on np.vectorize
VmapBackend_init_fallback(current_backend) ==
    CASE current_backend = "jax" -> Value("jax.vmap")
      [] current_backend = "numpy" -> Value("np.vectorize")
      [] current_backend = "pytorch" -> Value("torch.vmap")
      [] OTHER -> Value("np.vectorize")

\* VmapBackend.__init__: the value of self.vmap_func, or the exception
VmapBackend_init(current_backend) ==
    CASE current_backend = "jax" -> Value("jax.vmap")
      [] current_backend = "numpy" -> Value("np.vectorize")
      [] current_backend = "pytorch" -> Value("torch.vmap")
      [] OTHER -> Raise("ValueError", UnsupportedMsg)

\* VmapBackend.apply(func, *args, **kwargs): self.vmap_func(func) called
\* with the arguments
VmapBackend_apply(self, func, args) ==
    Value([used |-> self.vmap_func, func |-> func, args |-> args])

\* the backends of the manager: those of the tests and one more
ManagerBackends == Engines \cup {"paddle"}

\* the arguments given to apply
ApplyArgs == { <<0, 1>>, <<2>>, <<>> }

(***************************************************************************)
(* The arrays of the caller.  mem is the sequence of the arrays allocated  *)
(* so far; an array is referred to by its position in mem.  An array is    *)
(* its value, Tensor(ndim, data) of one or two axes, and whether it was    *)
(* written in place since its allocation.  set_at, add_at and index_add    *)
(* write the array they are given.                                         *)
(***************************************************************************)
\* largest number of arrays the caller allocates
MaxArrays == 2
\* largest number of indices given to one call
MaxIndices == 2

NewObject(val) == [val |-> val, written |-> FALSE]

\* the length of t along axis ax
AxisLength(t, ax) == IF ax = 0 THEN Len(t.data) ELSE Len(t.data[1])

\* one step of an indexed assignment along axis ax: the entries of t at
\* position pos take, or have added to them, factor times the entries of src
\* at position k
at_step(t, ax, pos, src, k, factor, adding) ==
    LET put(old, new) == IF adding THEN old + factor * new ELSE factor * new
    IN  IF t.ndim = 1
        THEN Tensor(1, Array([i \in 1..Len(t.data) |->
                 IF i - 1 = pos THEN put(t.data[i], src.data[k])
                 ELSE t.data[i]]))
        ELSE Tensor(2, Array([i \in 1..Len(t.data) |->
                 Array([j \in 1..Len(t.data[i]) |->
                     IF ax = 0 /\ i - 1 = pos
                     THEN put(t.data[i][j], src.data[k][j])
                     ELSE IF ax = 1 /\ j - 1 = pos
                     THEN put(t.data[i][j], src.data[i][k])
                     ELSE t.data[i][j]])]))

\* the indices taken one after the other, from index k on
RECURSIVE at_loop(_, _, _, _, _, _, _)
at_loop(t, ax, indices, src, k, factor, adding) ==
    IF k > Len(indices) THEN t
    ELSE at_loop(at_step(t, ax, NormAxis(indices[k], AxisLength(t, ax)),
                         src, k, factor, adding),
                 ax, indices, src, k + 1, factor, adding)

\* a[indices] = src
set_at(a, indices, src) == at_loop(a, 0, indices, src, 1, 1, FALSE)

\* mutant: a[indices] += src, which reads every entry before any is written
add_at_buffered(a, indices, src) ==
    LET n == Len(a.data)
        sum(x, y) == IF a.ndim = 1 THEN x + y
                     ELSE Array([j \in 1..Len(x) |-> x[j] + y[j]])
    IN  at_loop(a, 0, indices,
                Tensor(a.ndim, Array([k \in 1..Len(indices) |->
                    sum(a.data[NormAxis(indices[k], n) + 1], src.data[k])])),
                1, 1, FALSE)

\* np.add.at(a, indices, src)
add_at(a, indices, src) == at_loop(a, 0, indices, src, 1, 1, TRUE)

\* indexing[axis] = index; np.add.at(a, tuple(indexing), alpha*src)
index_add(a, index, src, axis, alpha) ==
    at_loop(a, NormAxis(axis, a.ndim), index, src, 1, alpha, TRUE)

\* the array at position a of mem written in place with value val
WriteArray(m, a, val) ==
    [m EXCEPT ![a] = [val |-> val, written |-> TRUE]]

\* no array has been written in place: the calls are made on arrays as
\* they were allocated
Unwritten(m) == \A b \in 1..Len(m) : ~m[b].written

\* the arrays the caller allocates
ArrayValues ==
    { Tensor(1, <<1, 2, 3>>), Tensor(2, << <<1, 2>>, <<3, 4>> >>) }

\* the index lists for an axis of length n: every position, also counted
\* from the end, repetitions included
IndexLists(n) ==
    UNION { { Array(f) : f \in [1..L -> (-n)..(n - 1)] } : L \in 1..MaxIndices }

\* the entries of the sources
SrcEntries == {1, 3}

\* the sources for L indices along axis ax of t: L entries for one axis,
\* L rows or columns of the entries 1 and 3 in either order for two
SrcArrays(t, ax, L) ==
    IF t.ndim = 1
    THEN { Tensor(1, Array(f)) : f \in [1..L -> SrcEntries] }
    ELSE LET lines == { <<1, 3>>, <<3, 1>> }
         IN  { Tensor(2, IF ax = 0 THEN Array(f)
                         ELSE Array([i \in 1..2 |->
                                  Array([k \in 1..L |-> f[k][i]])])) :
                 f \in [1..L -> lines] }

(***************************************************************************)
(* What the kernels write.  Every array a kernel handles is a view of some *)
(* array of the caller or lies in memory the call allocated; its base is   *)
(* the set of the caller's arrays it shares memory with: one position of   *)
(* mem, or none for memory of the call.  A kernel is modelled by the bases *)
(* its statements write and by the base of what it returns; the entries    *)
(* are not looked into here.                                               *)
(***************************************************************************)
\* np.zeros, np.ones, np.empty, np.array: new memory
Fresh == {}

\* mutant: np.empty_like(x) hands out x itself
np_empty_like_same(x) == x

\* np.empty_like(x): new memory of the shape of x
np_empty_like(x) == Fresh

\* x[i], x[..., 1:, :], x[..., None, :], x.T, x.ravel() of a contiguous x,
\* np.flip(x), x.swapaxes, x.reshape: a view of x
view_of(x) == x

\* x[index array]: indexing with an array copies
take_of(x) == Fresh

\* x - y, p*x, x/y, np.stack, np.sum, np.prod, np.cross, np.linalg.norm,
\* det, np.einsum of two operands, np.tril: the result is new memory
computed == Fresh

\* np.subtract(x, y, out=out), np.stack(xs, out=out): the result is written
\* to out when out is given, to new memory otherwise
into(out) == out

\* writes lists the bases written in place, result the base returned
Effect(writes, result, raises) ==
    [writes |-> UNION writes, result |-> result, raises |-> raises]

multi_index_matrix_writes ==
    LET sep == view_of(Fresh)
        raw == Fresh
    IN  \* raw[:, -1] = p; raw[:, 1:-1] = sep
        Effect({view_of(raw), view_of(raw)}, computed, FALSE)

simplex_shape_function_writes(bc, p, mi) ==
    IF p = 1 THEN Effect({}, bc, FALSE)
    ELSE LET mi_ == IF mi = {} THEN multi_index_matrix_writes.result ELSE mi
             A == Fresh
             \* A[..., 1:, :] = ...; np.cumprod(A, axis=-2, out=A);
             \* A[..., 1:, :] *= P.reshape(-1, 1)
             w == {view_of(A), into(A), view_of(A)}
             phi == computed
         IN  Effect(w, phi, FALSE)

simplex_grad_shape_function_writes(bc, p, mi) ==
    LET mi_ == IF mi = {} THEN multi_index_matrix_writes.result ELSE mi
        A == Fresh
        FF == computed
        F == Fresh
        Q == take_of(A)
        M == take_of(F)
        R == Fresh
    IN  \* A[..., 1:, :] = ...; FF[..., range(p), range(p)] = p;
        \* np.cumprod(FF, axis=-2, out=FF); F[..., 1:, :] = ...;
        \* F[..., 1:, :] *= ...; np.cumprod(A, axis=-2, out=A);
        \* A[..., 1:, :] *= ...; R[..., i] = ...
        Effect({view_of(A), FF, into(FF), view_of(F), view_of(F), into(A),
                view_of(A), view_of(R)}, R, FALSE)

simplex_measure_writes(entity, node, square) ==
    LET points == take_of(node)
    IN  IF ~square THEN Effect({}, Fresh, TRUE)
        ELSE Effect({}, computed, FALSE)

edge_length_writes(edge, node, out) ==
    IF out # {} THEN Effect({}, Fresh, TRUE)
    ELSE LET points == take_of(node)
         IN  Effect({}, computed, FALSE)

edge_normal_writes(edge, node, unit, out) ==
    LET points == take_of(node)
        edges == computed
        \* edges /= np.linalg.norm(...)
        w == IF unit THEN {edges} ELSE {}
        \* np.stack([...], axis=-1, out=out)
        result == IF out = {} THEN computed ELSE into(out)
    IN  Effect(w \cup {result}, result, FALSE)

edge_tangent_writes(edge, node, unit, out) ==
    LET \* np.subtract(node[edge[:, 1], :], node[edge[:, 0], :], out=out)
        v == IF out = {} THEN computed ELSE into(out)
        \* v /= l
        w == IF unit THEN {v} ELSE {}
    IN  Effect(w \cup {v}, v, FALSE)

interval_grad_lambda_writes(line, node) ==
    LET points == take_of(node)
        v == computed
    IN  \* v /= h2
        Effect({v}, computed, FALSE)

triangle_grad_lambda_2d_writes(tri, node) ==
    LET points == take_of(node)
        e0 == view_of(computed)
        result == computed
    IN  \* result[..., 0] *= -1
        Effect({view_of(result)}, computed, FALSE)

triangle_grad_lambda_3d_writes(tri, node) ==
    LET points == take_of(node)
    IN  Effect({}, computed, FALSE)

\* coo_matvec, csr_matvec, csr_matvecs of scipy's sparsetools write their last
\* argument Yx; coo_tocsr writes its last three, Bp, Bj and Bx
coo_spmm_writes(indices, values, other, values_ndim, other_ndim) ==
    LET row == view_of(indices)
        col == view_of(indices)
    IN  IF values_ndim # 1 \/ other_ndim \notin {1, 2}
        THEN Effect({}, Fresh, TRUE)
        ELSE LET result == Fresh
                 rT == view_of(result)
             IN  IF other_ndim = 1 THEN Effect({result}, result, FALSE)
                 ELSE Effect({view_of(rT)}, result, FALSE)

csr_spmm_writes(crow, col, values, other, values_ndim, other_ndim) ==
    IF values_ndim # 1 \/ other_ndim \notin {1, 2}
    THEN Effect({}, Fresh, TRUE)
    ELSE LET result == Fresh
         IN  IF other_ndim = 1 THEN Effect({result}, result, FALSE)
             ELSE Effect({view_of(result)}, result, FALSE)

coo_tocsr_writes(indices, values) ==
    LET major == view_of(indices)
        minor == view_of(indices)
        crow == Fresh
        col == np_empty_like(minor)
        data == np_empty_like(values)
    IN  Effect({crow, col, data}, Fresh, FALSE)

\* the array arguments of the kernels, and those that may be left out
KernelArrays ==
    [multi_index_matrix |-> <<>>,
     simplex_shape_function |-> <<"bc", "mi">>,
     simplex_grad_shape_function |-> <<"bc", "mi">>,
     simplex_measure |-> <<"entity", "node">>,
     edge_length |-> <<"edge", "node", "out">>,
     edge_normal |-> <<"edge", "node", "out">>,
     edge_tangent |-> <<"edge", "node", "out">>,
     interval_grad_lambda |-> <<"line", "node">>,
     triangle_grad_lambda_2d |-> <<"tri", "node">>,
     triangle_grad_lambda_3d |-> <<"tri", "node">>,
     coo_spmm |-> <<"indices", "values", "other">>,
     csr_spmm |-> <<"crow", "col", "values", "other">>,
     coo_tocsr |-> <<"indices", "values">>]

OptionalArrays == {"mi", "out"}

Kernels == DOMAIN KernelArrays

\* the call kernel(*x, **o): x gives the base of every array argument, in
\* the order of KernelArrays, o the other arguments
kernel_writes(kernel, x, o) ==
    CASE kernel = "multi_index_matrix" -> multi_index_matrix_writes
      [] kernel = "simplex_shape_function" ->
             simplex_shape_function_writes(x[1], o.p, x[2])
      [] kernel = "simplex_grad_shape_function" ->
             simplex_grad_shape_function_writes(x[1], o.p, x[2])
      [] kernel = "simplex_measure" ->
             simplex_measure_writes(x[1], x[2], o.square)
      [] kernel = "edge_length" -> edge_length_writes(x[1], x[2], x[3])
      [] kernel = "edge_normal" ->
             edge_normal_writes(x[1], x[2], o.unit, x[3])
      [] kernel = "edge_tangent" ->
             edge_tangent_writes(x[1], x[2], o.unit, x[3])
      [] kernel = "interval_grad_lambda" ->
             interval_grad_lambda_writes(x[1], x[2])
      [] kernel = "triangle_grad_lambda_2d" ->
             triangle_grad_lambda_2d_writes(x[1], x[2])
      [] kernel = "triangle_grad_lambda_3d" ->
             triangle_grad_lambda_3d_writes(x[1], x[2])
      [] kernel = "coo_spmm" ->
             coo_spmm_writes(x[1], x[2], x[3], o.values_ndim, o.other_ndim)
      [] kernel = "csr_spmm" ->
             csr_spmm_writes(x[1], x[2], x[3], x[4], o.values_ndim,
                             o.other_ndim)
      [] kernel = "coo_tocsr" -> coo_tocsr_writes(x[1], x[2])

\* mem after the arrays of w were written in place
WriteAll(m, w) ==
    Array([b \in 1..Len(m) |->
        IF b \in w THEN [m[b] EXCEPT !.written = TRUE] ELSE m[b]])

\* the arguments that are not arrays; an argument a kernel does not have
\* keeps its first value
NoOptions == [p |-> 0, unit |-> FALSE, square |-> TRUE, values_ndim |-> 1,
              other_ndim |-> 1]

KernelOptions(kernel) ==
    CASE kernel \in {"simplex_shape_function", "simplex_grad_shape_function"} ->
             { [NoOptions EXCEPT !.p = p] : p \in 0..MaxP }
      [] kernel = "simplex_measure" ->
             { [NoOptions EXCEPT !.square = s] : s \in BOOLEAN }
      [] kernel \in {"edge_normal", "edge_tangent"} ->
             { [NoOptions EXCEPT !.unit = u] : u \in BOOLEAN }
      [] kernel \in {"coo_spmm", "csr_spmm"} ->
             { [NoOptions EXCEPT !.values_ndim = v, !.other_ndim = r] :
                 v \in 1..2, r \in 1..MaxRank }
      [] OTHER -> {NoOptions}

\* the bases of the array arguments: any array of the caller for each, or
\* none for one that may be left out
KernelArguments(kernel, n) ==
    LET names == KernelArrays[kernel]
    IN  { Array(x) : x \in
            { f \in [1..Len(names) -> { {b} : b \in 1..n } \cup {{}}] :
                \A k \in 1..Len(names) :
                    f[k] = {} => names[k] \in OptionalArrays } }

(***************************************************************************)
(* The caller: one kernel call at a time.                                  *)
(***************************************************************************)
NoCall == [op |-> "none"]
NoRet == [kind |-> "none"]

NoValue == [kind |-> "none", seed |-> 0, k |-> 0]
NoDraw == [val |-> NoValue, alone |-> NoValue]

\* no call in progress; every thread has the default engine, no computation
\* and has drawn nothing; no mesh, no array and no VmapBackend has been made
Init ==
    /\ pc = "idle"
    /\ call = NoCall
    /\ ret = NoRet
    /\ engine = [t \in Threads |-> "numpy"]
    /\ job = [t \in Threads |-> NoJob]
    /\ rng = DefaultGenerator
    /\ own = [t \in Threads |-> DefaultGenerator]
    /\ drawn = [t \in Threads |-> NoDraw]
    /\ ds = NoMesh
    /\ mem = NoArrays
    /\ backend_name = "numpy"
    /\ vb = NoVmapBackend

CallCooToCsr ==
    /\ pc = "idle"
    /\ \E A \in CooInputs :
          /\ call' = [op |-> "coo_tocsr", indices |-> A.indices,
                      values |-> A.values, shape |-> A.shape]
          /\ ret' = Value(coo_tocsr(A.indices, A.values, A.shape))
    /\ pc' = "returned"
    /\ UNCHANGED <<threadVars, objectVars>>

\* values of rank 1, or a batch of values (rank 2) with one operand per rank
CallCooSpmm ==
    /\ pc = "idle"
    /\ \E A \in CooInputs, batch \in BOOLEAN :
          \E other \in IF batch THEN OneOtherPerRank(A.shape[2])
                                ELSE OtherOperands(A.shape[2]) :
             LET values == IF batch THEN Tensor(2, <<A.values>>)
                                    ELSE Tensor(1, A.values)
             IN  /\ call' = [op |-> "coo_spmm", indices |-> A.indices,
                             values |-> values, shape |-> A.shape, other |-> other]
                 /\ ret' = coo_spmm(A.indices, values, A.shape, other)
    /\ pc' = "returned"
    /\ UNCHANGED <<threadVars, objectVars>>

\* the caller passes the CSR triple coo_tocsr has just returned to csr_spmm;
\* the call remembers the COO matrix the triple came from (field coo)
CallCsrSpmm ==
    /\ pc = "returned"
    /\ call.op = "coo_tocsr"
    /\ ret.kind = "value"
    /\ \E batch \in BOOLEAN :
          \E other \in IF batch THEN OneOtherPerRank(call.shape[2])
                                ELSE OtherOperands(call.shape[2]) :
             LET values == IF batch THEN Tensor(2, <<ret.val[3]>>)
                                    ELSE Tensor(1, ret.val[3])
             IN  /\ call' = [op |-> "csr_spmm", crow |-> ret.val[1],
                             col |-> ret.val[2], values |-> values,
                             shape |-> call.shape, other |-> other,
                             coo |-> [indices |-> call.indices,
                                      values |-> call.values]]
                 /\ ret' = csr_spmm(ret.val[1], ret.val[2], values, call.shape, other)
    /\ pc' = "returned"
    /\ UNCHANGED <<threadVars, objectVars>>

\* both operands are CSR triples made by coo_tocsr; one of the two ranges
\* over all COO inputs, the other over a few fixed matrices
CallCsrSpspmm ==
    /\ pc = "idle"
    /\ \E F \in CooInputs, free \in {"left", "right"}, D \in Dims :
          \E G \in IF free = "left" THEN CooFixed(F.shape[2], D)
                                    ELSE CooFixed(D, F.shape[1]) :
             LET A  == IF free = "left" THEN F ELSE G
                 B  == IF free = "left" THEN G ELSE F
                 m1 == coo_tocsr(A.indices, A.values, A.shape)
                 m2 == coo_tocsr(B.indices, B.values, B.shape)
             IN  /\ call' = [op |-> "csr_spspmm",
                             crow1 |-> m1[1], col1 |-> m1[2], values1 |-> m1[3],
                             shape1 |-> A.shape,
                             crow2 |-> m2[1], col2 |-> m2[2], values2 |-> m2[3],
                             shape2 |-> B.shape]
                 /\ ret' = Value(csr_spspmm(m1[1], m1[2], m1[3], A.shape,
                                            m2[1], m2[2], m2[3], B.shape))
    /\ pc' = "returned"
    /\ UNCHANGED <<threadVars, objectVars>>

CallMultiIndexMatrix ==
    /\ pc = "idle"
    /\ \E p \in 0..MaxP, dim \in TDs :
          /\ call' = [op |-> "multi_index_matrix", p |-> p, dim |-> dim]
          /\ ret' = Value(multi_index_matrix(p, dim))
    /\ pc' = "returned"
    /\ UNCHANGED <<threadVars, objectVars>>

\* the caller takes the outcome and is ready for the next call
Return ==
    /\ pc = "returned"
    /\ pc' = "idle"
    /\ call' = NoCall
    /\ ret' = NoRet
    /\ UNCHANGED <<threadVars, objectVars>>

CallSimplexShapeFunction ==
    /\ pc = "idle"
    /\ \E p \in 0..MaxP, TD \in TDs :
          \E bc \in BcPoints(TD) :
             /\ call' = [op |-> "simplex_shape_function", bc |-> bc, p |-> p]
             /\ ret' = Value(simplex_shape_function(bc, p))
    /\ pc' = "returned"
    /\ UNCHANGED <<threadVars, objectVars>>

CallSimplexGradShapeFunction ==
    /\ pc = "idle"
    /\ \E p \in 0..MaxP, TD \in TDs :
          \E bc \in BcPoints(TD) :
             /\ call' = [op |-> "simplex_grad_shape_function", bc |-> bc, p |-> p]
             /\ ret' = Value(simplex_grad_shape_function(bc, p))
    /\ pc' = "returned"
    /\ UNCHANGED <<threadVars, objectVars>>

\* the entity array holds the cell and the same cell with its vertices in
\* the opposite order
CallSimplexMeasure ==
    /\ pc = "idle"
    /\ \E GD \in GDs, NVC \in NVCs :
          \E cell \in MeasureCells(NVC, GD) :
             LET node == GridNodes(GD)
                 entity == <<cell, Reverse(cell)>>
             IN  /\ call' = [op |-> "simplex_measure", entity |-> entity,
                             node |-> node]
                 /\ ret' = simplex_measure(entity, node)
    /\ pc' = "returned"
    /\ UNCHANGED <<threadVars, objectVars>>

CallEdgeNormal ==
    /\ pc = "idle"
    /\ \E GD \in GDs :
          \E cell \in Cells(2, Pow(MaxCoord + 1, GD)) :
             LET node == GridNodes(GD)
                 edge == <<cell, Reverse(cell)>>
             IN  /\ call' = [op |-> "edge_normal", edge |-> edge, node |-> node]
                 /\ ret' = edge_normal(edge, node)
    /\ pc' = "returned"
    /\ UNCHANGED <<threadVars, objectVars>>

\* triangles of a two-dimensional mesh, degenerate ones included
CallTriangleGradLambda2d ==
    /\ pc = "idle"
    /\ \E cell \in Cells(3, Pow(MaxCoord + 1, 2)) :
          LET node == GridNodes(2)
              tri == <<cell, Reverse(cell)>>
          IN  /\ call' = [op |-> "triangle_grad_lambda_2d", tri |-> tri,
                          node |-> node]
              /\ ret' = triangle_grad_lambda_2d(tri, node)
    /\ pc' = "returned"
    /\ UNCHANGED <<threadVars, objectVars>>

CallVmap ==
    /\ pc = "idle"
    /\ \E func \in Funcs, in_axes \in Axes, out_axes \in Axes :
          /\ call' = [op |-> "vmap", func |-> func, in_axes |-> in_axes,
                      out_axes |-> out_axes]
          /\ ret' = vmap(func, in_axes, out_axes)
    /\ pc' = "returned"
    /\ UNCHANGED <<threadVars, objectVars>>

\* the caller calls the function vmap has just returned
CallVectorized ==
    /\ pc = "returned"
    /\ call.op = "vmap"
    /\ ret.kind = "value"
    /\ \E args \in VmapArgs(Arity(ret.val.func)) :
          /\ call' = [op |-> "vectorized", func |-> ret.val.func,
                      in_axes |-> ret.val.in_axes, args |-> args]
          /\ ret' = vectorized(ret.val, args)
    /\ pc' = "returned"
    /\ UNCHANGED <<threadVars, objectVars>>

CallCreation ==
    /\ pc = "idle"
    /\ \E np_major \in NpMajors, name \in WrappedBelow2 \cup WrappedAlways,
          kwargs \in CreationKwargs :
          /\ call' = [op |-> "creation", name |-> name, np_major |-> np_major,
                      kwargs |-> kwargs]
          /\ ret' = creation(np_major, name, kwargs)
    /\ pc' = "returned"
    /\ UNCHANGED <<threadVars, objectVars>>

CallDevicePut ==
    /\ pc = "idle"
    /\ \E device \in Devices :
          /\ call' = [op |-> "device_put", tensor_like |-> NdArray,
                      device |-> device]
          /\ ret' = device_put(NdArray, device)
    /\ pc' = "returned"
    /\ UNCHANGED <<threadVars, objectVars>>

CallUnimplemented ==
    /\ pc = "idle"
    /\ \E name \in UnimplementedNames :
          /\ call' = [op |-> name]
          /\ ret' = Unimplemented(name)
    /\ pc' = "returned"
    /\ UNCHANGED <<threadVars, objectVars>>

\* a thread selects an engine between two computations
SetBackend(t) ==
    /\ ~job[t].busy
    /\ \E name \in BackendNames : engine' = set_backend(engine, t, name)
    /\ UNCHANGED <<job, rng, own, drawn, callVars, objectVars>>

\* a thread starts a computation of some canonical operations
StartCompute(t) ==
    /\ ~job[t].busy
    /\ \E n \in 1..MaxOps :
          job' = [job EXCEPT ![t] = [busy |-> TRUE, left |-> n,
                                     selected |-> engine[t], used |-> {}]]
    /\ UNCHANGED <<engine, rng, own, drawn, callVars, objectVars>>

\* the computation dispatches one operation to the active engine of its thread
Dispatch(t) ==
    /\ job[t].busy
    /\ job[t].left > 0
    /\ job' = [job EXCEPT ![t].left = @ - 1, ![t].used = @ \cup {engine[t]}]
    /\ UNCHANGED <<engine, rng, own, drawn, callVars, objectVars>>

FinishCompute(t) ==
    /\ job[t].busy
    /\ job[t].left = 0
    /\ job' = [job EXCEPT ![t] = NoJob]
    /\ UNCHANGED <<engine, rng, own, drawn, callVars, objectVars>>

\* bm.random.seed(seed) in thread t.  own[t] is the generator the thread
\* would have were it the only thread
Seed(t) ==
    /\ \E seed \in 1..MaxSeed :
          /\ rng' = np_random_seed(rng, seed)
          /\ own' = [own EXCEPT ![t] = np_random_seed(own[t], seed)]
    /\ UNCHANGED <<engine, job, drawn, callVars, objectVars>>

\* bm.random.rand / randint / randn in thread t.  drawn[t] holds the value
\* drawn and the value the generator of the thread alone would have given
Draw(t) ==
    /\ rng.k < MaxDraws
    /\ own[t].k < MaxDraws
    /\ \E kind \in DrawKinds :
          drawn' = [drawn EXCEPT ![t] =
                       [val |-> np_random_value(rng, kind),
                        alone |-> np_random_value(own[t], kind)]]
    /\ rng' = np_random_advance(rng)
    /\ own' = [own EXCEPT ![t] = np_random_advance(own[t])]
    /\ UNCHANGED <<engine, job, callVars, objectVars>>

\* the test selects a backend and calls bm.unique
CallUnique ==
    /\ pc = "idle"
    /\ \E backend \in Engines, a \in UniqueInputs :
          /\ call' = [op |-> "unique", backend |-> backend, a |-> a]
          /\ ret' = Value(unique(backend, a))
    /\ pc' = "returned"
    /\ UNCHANGED <<threadVars, objectVars>>

CallUniqueAll ==
    /\ pc = "idle"
    /\ \E a \in UniqueInputs :
          /\ call' = [op |-> "unique_all_", a |-> a]
          /\ ret' = Value(unique_all_(a))
    /\ pc' = "returned"
    /\ UNCHANGED <<threadVars, objectVars>>

CallJaxMultiIndexMatrix ==
    /\ pc = "idle"
    /\ \E p \in JaxDegrees, etype \in 1..4, nan \in NanCasts :
          \E first \in JaxFirsts(p, etype) :
              /\ call' = [op |-> "jax_multi_index_matrix", p |-> p,
                          etype |-> etype, first |-> first]
              /\ ret' = MeshBase_multi_index_matrix(p, etype, first, nan)
    /\ pc' = "returned"
    /\ UNCHANGED <<threadVars, objectVars>>

CallShapeAtNodes ==
    /\ pc = "idle"
    /\ \E p \in 1..MaxP, TD \in TDs :
          \E bc \in InterpolationPairs(p, TD) :
             /\ call' = [op |-> "simplex_shape_function_nd", bc |-> bc,
                         p |-> p]
             /\ ret' = Value(simplex_shape_function_nd(bc, p))
    /\ pc' = "returned"
    /\ UNCHANGED <<threadVars, objectVars>>

\* vmap(func, in_axes, in_axes)(*args, **kwargs)
CallVmapApply ==
    /\ pc = "idle"
    /\ \E in_axes \in Axes, kwargs \in VmapKwargs :
          \E args \in VmapMixedArgs(in_axes) :
             /\ call' = [op |-> "vmap_apply", func |-> "first_times",
                         in_axes |-> in_axes, args |-> args,
                         kwargs |-> kwargs]
             /\ ret' = vectorized_kwargs(
                           vmap("first_times", in_axes, in_axes).val,
                           args, kwargs)
    /\ pc' = "returned"
    /\ UNCHANGED <<threadVars, objectVars>>

\* ds = MeshDataStructure(NN, TD)
CallMeshInit ==
    /\ pc = "idle"
    /\ \E TD \in TopDimensions :
          /\ call' = [op |-> "MeshDataStructure", TD |-> TD]
          /\ ds' = MeshDataStructure(TD)
    /\ ret' = Value(None)
    /\ pc' = "returned"
    /\ UNCHANGED <<threadVars, mem, backend_name, vb>>

\* ds.name
CallMeshGetAttr ==
    /\ pc = "idle"
    /\ ds.made
    /\ \E name \in _STORAGE_ATTR :
          /\ call' = [op |-> "getattr", name |-> name]
          /\ ret' = mesh_getattr(ds, name)
    /\ pc' = "returned"
    /\ UNCHANGED <<threadVars, objectVars>>

\* ds.name = value
CallMeshSetAttr ==
    /\ pc = "idle"
    /\ ds.made
    /\ \E name \in _STORAGE_ATTR, value \in EntityArrays :
          /\ call' = [op |-> "setattr", name |-> name, value |-> value]
          /\ ret' = mesh_setattr(ds, name, value).out
          /\ ds' = mesh_setattr(ds, name, value).ds
    /\ pc' = "returned"
    /\ UNCHANGED <<threadVars, mem, backend_name, vb>>

\* bm.set_backend(name): the active backend of the manager changes
SwitchBackend ==
    /\ \E name \in ManagerBackends \ {backend_name} : backend_name' = name
    /\ UNCHANGED <<threadVars, callVars, ds, mem, vb>>

\* vb = VmapBackend(); a failed construction leaves the name vb as it was
CallVmapBackendInit ==
    /\ pc = "idle"
    /\ call' = [op |-> "VmapBackend", current_backend |-> backend_name]
    /\ LET r == VmapBackend_init(backend_name)
       IN  IF r.kind = "value"
           THEN /\ vb' = [made |-> TRUE, vmap_func |-> r.val]
                /\ ret' = Value(None)
           ELSE /\ vb' = vb
                /\ ret' = r
    /\ pc' = "returned"
    /\ UNCHANGED <<threadVars, ds, mem, backend_name>>

\* vb.apply(func, *args)
CallVmapBackendApply ==
    /\ pc = "idle"
    /\ vb.made
    /\ \E func \in Funcs, args \in ApplyArgs :
          /\ call' = [op |-> "apply", func |-> func, args |-> args]
          /\ ret' = VmapBackend_apply(vb, func, args)
    /\ pc' = "returned"
    /\ UNCHANGED <<threadVars, objectVars>>

\* the caller allocates an array
NewArray ==
    /\ pc = "idle"
    /\ Len(mem) < MaxArrays
    /\ \E val \in ArrayValues : mem' = Append(mem, NewObject(val))
    /\ UNCHANGED <<threadVars, callVars, ds, backend_name, vb>>

CallSetAt ==
    /\ pc = "idle"
    /\ Unwritten(mem)
    /\ \E a \in 1..Len(mem) :
          \E indices \in IndexLists(AxisLength(mem[a].val, 0)) :
             \E src \in SrcArrays(mem[a].val, 0, Len(indices)) :
                /\ call' = [op |-> "set_at", a |-> a, indices |-> indices,
                            src |-> src, axis |-> 0, alpha |-> 1]
                /\ mem' = WriteArray(mem, a, set_at(mem[a].val, indices, src))
                /\ ret' = Value(a)
    /\ pc' = "returned"
    /\ UNCHANGED <<threadVars, ds, backend_name, vb>>

CallAddAt ==
    /\ pc = "idle"
    /\ Unwritten(mem)
    /\ \E a \in 1..Len(mem) :
          \E indices \in IndexLists(AxisLength(mem[a].val, 0)) :
             \E src \in SrcArrays(mem[a].val, 0, Len(indices)) :
                /\ call' = [op |-> "add_at", a |-> a, indices |-> indices,
                            src |-> src, axis |-> 0, alpha |-> 1]
                /\ mem' = WriteArray(mem, a, add_at(mem[a].val, indices, src))
                /\ ret' = Value(a)
    /\ pc' = "returned"
    /\ UNCHANGED <<threadVars, ds, backend_name, vb>>

CallIndexAdd ==
    /\ pc = "idle"
    /\ Unwritten(mem)
    /\ \E a \in 1..Len(mem), alpha \in {1, 2} :
          \E axis \in { x \in Axes : NormAxis(x, mem[a].val.ndim) \in
                                         0..(mem[a].val.ndim - 1) } :
             LET ax == NormAxis(axis, mem[a].val.ndim)
             IN  \E index \in IndexLists(AxisLength(mem[a].val, ax)) :
                    \E src \in SrcArrays(mem[a].val, ax, Len(index)) :
                       /\ call' = [op |-> "index_add", a |-> a,
                                   indices |-> index, src |-> src,
                                   axis |-> axis, alpha |-> alpha]
                       /\ mem' = WriteArray(mem, a,
                                     index_add(mem[a].val, index, src, axis, alpha))
                       /\ ret' = Value(a)
    /\ pc' = "returned"
    /\ UNCHANGED <<threadVars, ds, backend_name, vb>>

\* a kernel is called with arrays of the caller
CallKernel ==
    /\ pc = "idle"
    /\ \E kernel \in Kernels :
          \E x \in KernelArguments(kernel, Len(mem)),
             o \in KernelOptions(kernel) :
             LET e == kernel_writes(kernel, x, o)
             IN  /\ call' = [op |-> "kernel", kernel |-> kernel, x |-> x,
                             o |-> o]
                 /\ mem' = WriteAll(mem, e.writes)
                 /\ ret' = IF e.raises
                           THEN [kind |-> "raise", wrote |-> e.writes,
                                 result |-> e.result]
                           ELSE [kind |-> "value", wrote |-> e.writes,
                                 result |-> e.result]
    /\ pc' = "returned"
    /\ UNCHANGED <<threadVars, ds, backend_name, vb>>

NextFEM ==
    \/ CallMultiIndexMatrix
    \/ CallSimplexShapeFunction
    \/ CallSimplexGradShapeFunction
    \/ Return

SpecFEM == Init /\ [][NextFEM]_vars

NextSparse ==
    \/ CallCooToCsr
    \/ CallCooSpmm
    \/ CallCsrSpmm
    \/ Return

SpecSparse == Init /\ [][NextSparse]_vars

NextSpGemm ==
    \/ CallCsrSpspmm
    \/ Return

SpecSpGemm == Init /\ [][NextSpGemm]_vars

NextGeom ==
    \/ CallSimplexMeasure
    \/ CallEdgeNormal
    \/ CallTriangleGradLambda2d
    \/ Return

SpecGeom == Init /\ [][NextGeom]_vars

NextVmap ==
    \/ CallVmap
    \/ CallVectorized
    \/ Return

SpecVmap == Init /\ [][NextVmap]_vars

NextAdapter ==
    \/ CallCreation
    \/ CallDevicePut
    \/ CallUnimplemented
    \/ Return

SpecAdapter == Init /\ [][NextAdapter]_vars

NextEngine ==
    \E t \in Threads :
       \/ SetBackend(t)
       \/ StartCompute(t)
       \/ Dispatch(t)
       \/ FinishCompute(t)

SpecEngine == Init /\ [][NextEngine]_vars

NextRandom ==
    \E t \in Threads :
       \/ Seed(t)
       \/ Draw(t)

SpecRandom == Init /\ [][NextRandom]_vars

NextUnique ==
    \/ CallUnique
    \/ CallUniqueAll
    \/ Return

SpecUnique == Init /\ [][NextUnique]_vars

NextJax ==
    \/ CallJaxMultiIndexMatrix
    \/ Return

SpecJax == Init /\ [][NextJax]_vars

NextNodal ==
    \/ CallShapeAtNodes
    \/ Return

SpecNodal == Init /\ [][NextNodal]_vars

NextVmapArgs ==
    \/ CallVmapApply
    \/ Return

SpecVmapArgs == Init /\ [][NextVmapArgs]_vars

NextMesh ==
    \/ CallMeshInit
    \/ CallMeshGetAttr
    \/ CallMeshSetAttr
    \/ Return

SpecMesh == Init /\ [][NextMesh]_vars

NextVmapBackend ==
    \/ SwitchBackend
    \/ CallVmapBackendInit
    \/ CallVmapBackendApply
    \/ Return

SpecVmapBackend == Init /\ [][NextVmapBackend]_vars

NextInPlace ==
    \/ NewArray
    \/ CallSetAt
    \/ CallAddAt
    \/ CallIndexAdd
    \/ Return

SpecInPlace == Init /\ [][NextInPlace]_vars

NextFrame ==
    \/ NewArray
    \/ CallKernel
    \/ Return

SpecFrame == Init /\ [][NextFrame]_vars

Next ==
    \/ NextFEM
    \/ NextSparse
    \/ NextSpGemm
    \/ NextGeom
    \/ NextVmap
    \/ NextAdapter
    \/ NextEngine
    \/ NextRandom
    \/ NextUnique
    \/ NextJax
    \/ NextNodal
    \/ NextVmapArgs
    \/ NextMesh
    \/ NextVmapBackend
    \/ NextInPlace
    \/ NextFrame

Spec == Init /\ [][Next]_vars

(***************************************************************************)
(* Properties of the finite-element kernels.                               *)
(***************************************************************************)
RECURSIVE Binomial(_, _)
Binomial(n, k) ==
    IF k = 0 THEN 1
    ELSE IF n = 0 THEN 0
    ELSE Binomial(n - 1, k - 1) + Binomial(n - 1, k)

\* 1 + 1/2 + ... + 1/p
RECURSIVE Harmonic(_)
Harmonic(p) == IF p = 0 THEN RInt(0) ELSE RAdd(Harmonic(p - 1), Rat(1, p))

\* strictly decreasing in lexicographic order
RECURSIVE LexGreater(_, _)
LexGreater(a, b) ==
    /\ a # <<>>
    /\ b # <<>>
    /\ \/ Head(a) > Head(b)
       \/ Head(a) = Head(b) /\ LexGreater(Tail(a), Tail(b))

Returned(name) == pc = "returned" /\ call.op = name

\* C1: for every p >= 0 and TD in {1,2,3}, multi_index_matrix(p, TD) returns
\* exactly C(p+TD, TD) rows of TD+1 non-negative integers, every row sums to
\* p, and no two rows are equal.
C1_MultiIndexRows ==
    Returned("multi_index_matrix") =>
        LET mi == ret.val
            p  == call.p
            TD == call.dim
        IN  /\ ret.kind = "value"
            /\ Len(mi) = Binomial(p + TD, TD)
            /\ \A k \in 1..Len(mi) :
                  /\ Len(mi[k]) = TD + 1
                  /\ \A i \in 1..(TD + 1) : mi[k][i] >= 0
                  /\ SumSeq(mi[k]) = p
            /\ \A k, l \in 1..Len(mi) : k # l => mi[k] # mi[l]

\* C1 witness: the 10 multi-indices of degree 2 on the tetrahedron returned
C1_Witness ==
    /\ Returned("multi_index_matrix")
    /\ call.p = 2
    /\ call.dim = 3
    /\ Len(ret.val) = 10

\* C2: multi_index_matrix(p, TD) lists its rows in one fixed canonical order
\* in which the first coordinate varies slowest: it never increases from one
\* row to the next and runs from p (first row) down to 0 (last row).  The
\* order is the strictly decreasing lexicographic one, which, the rows being
\* all the multi-indices (C1), leaves one possible result per (p, TD).
C2_MultiIndexOrder ==
    Returned("multi_index_matrix") =>
        LET mi == ret.val
        IN  /\ mi[1][1] = call.p
            /\ mi[Len(mi)][1] = 0
            /\ \A k \in 1..(Len(mi) - 1) :
                  /\ mi[k][1] >= mi[k + 1][1]
                  /\ LexGreater(mi[k], mi[k + 1])

\* C2 witness: degree 2 on the triangle, returned in the canonical order
C2_Witness ==
    /\ Returned("multi_index_matrix")
    /\ call.p = 2
    /\ call.dim = 2
    /\ ret.val = << <<2, 0, 0>>, <<1, 1, 0>>, <<1, 0, 1>>,
                    <<0, 2, 0>>, <<0, 1, 1>>, <<0, 0, 2>> >>

\* C3: for every p >= 0, TD in {1,2,3} and every barycentric point bc, the
\* values returned by simplex_shape_function(bc, p) sum to 1.
C3_PartitionOfUnity ==
    Returned("simplex_shape_function") =>
        /\ ret.kind = "value"
        /\ RSum(ret.val) = RInt(1)

\* C3 witness: a cubic basis on the tetrahedron evaluated at an edge midpoint,
\* where several basis functions are non-zero
C3_Witness ==
    /\ Returned("simplex_shape_function")
    /\ call.p = 3
    /\ Len(call.bc) = 4
    /\ \E i \in 1..4 : call.bc[i] = Rat(1, 2)
    /\ Len(ret.val) = 20
    /\ \E j, l \in 1..20 : j # l /\ ret.val[j][1] # 0 /\ ret.val[l][1] # 0

\* sum of the gradient over the basis functions (axis -2), direction i
GradBasisSum(R, i) == RSum(Array([j \in 1..Len(R) |-> R[j][i]]))

\* C4 (as stated): summing simplex_grad_shape_function(bc, p) over its last
\* axis (the TD+1 barycentric directions) gives zero for every basis function.
C4_GradRowSumsZero ==
    Returned("simplex_grad_shape_function") =>
        \A j \in 1..Len(ret.val) : RSum(ret.val[j]) = RInt(0)

\* C4 (amended): summing simplex_grad_shape_function(bc, p) over the basis
\* functions (axis -2) gives the same value p*(1 + 1/2 + ... + 1/p) in each
\* of the TD+1 barycentric directions; each row has TD+1 entries and there
\* are C(p+TD, TD) rows.
C4_GradBasisSumsEqual ==
    Returned("simplex_grad_shape_function") =>
        LET R  == ret.val
            p  == call.p
            TD == Len(call.bc) - 1
        IN  /\ ret.kind = "value"
            /\ Len(R) = Binomial(p + TD, TD)
            /\ \A j \in 1..Len(R) : Len(R[j]) = TD + 1
            /\ \A i \in 1..(TD + 1) :
                  GradBasisSum(R, i) = RMul(RInt(p), Harmonic(p))

\* C4 witness: a quadratic gradient on the triangle with a row that does not
\* sum to zero
C4_Witness ==
    /\ Returned("simplex_grad_shape_function")
    /\ call.p = 2
    /\ Len(call.bc) = 3
    /\ \E j \in 1..Len(ret.val) : RSum(ret.val[j]) # RInt(0)
    /\ GradBasisSum(ret.val, 1) = RInt(3)

(***************************************************************************)
(* Properties of the sparse kernels.  The reference is the dense matrix a  *)
(* sparse matrix stands for: entry (r, c) is the sum of the stored values  *)
(* with row r and column c.                                                *)
(***************************************************************************)
\* the stored COO entries with row r and column c (0-based)
CooHits(indices, r, c) ==
    {n \in 1..Len(indices[1]) : indices[1][n] = r /\ indices[2][n] = c}

\* the stored CSR entries (1-based positions) of row r, and those with column c
CsrRow(crow, r) == (At(crow, r) + 1)..At(crow, r + 1)
CsrHits(crow, col, r, c) == {q \in CsrRow(crow, r) : col[q] = c}

RECURSIVE SumOver(_, _)
SumOver(S, v) ==
    IF S = {} THEN 0
    ELSE LET n == CHOOSE n \in S : TRUE IN v[n] + SumOver(S \ {n}, v)

DenseOfCoo(indices, values, shape) ==
    Array([r \in 1..shape[1] |->
        Array([c \in 1..shape[2] |->
            SumOver(CooHits(indices, r - 1, c - 1), values)])])

DenseOfCsr(crow, col, data, shape) ==
    Array([r \in 1..shape[1] |->
        Array([c \in 1..shape[2] |->
            SumOver(CsrHits(crow, col, r - 1, c - 1), data)])])

DenseMatVec(D, x) ==
    Array([r \in 1..Len(D) |->
        SumSeq(Array([c \in 1..Len(x) |-> D[r][c] * x[c]]))])

\* D of shape (M, N) times E of shape (N, K)
DenseMatMat(D, E, K) ==
    Array([r \in 1..Len(D) |->
        Array([k \in 1..K |->
            SumSeq(Array([c \in 1..Len(E) |-> D[r][c] * E[c][k]]))])])

\* C5 (as stated): coo_tocsr sums duplicate (row, col) pairs into a single
\* CSR entry: no row of the result holds the same column index twice, and
\* the value stored for (row, col) is the sum of the COO values of that pair.
C5_DuplicatesMerged ==
    Returned("coo_tocsr") =>
        LET crow == ret.val[1]
            col  == ret.val[2]
            data == ret.val[3]
        IN  \A r \in 0..(call.shape[1] - 1), c \in 0..(call.shape[2] - 1) :
               LET hits == CsrHits(crow, col, r, c)
               IN  /\ Cardinality(hits) <= 1
                   /\ \A q \in hits :
                         data[q] = SumOver(CooHits(call.indices, r, c), call.values)

\* C5 (amended): coo_tocsr carries every COO entry over as a CSR entry of
\* its own: col and data have the length nnz of the input, a (row, col) pair
\* given k times is stored k times in that row, and the values stored for
\* the pair add up to the sum of the COO values given for it.
C5_DuplicatesCarriedOver ==
    Returned("coo_tocsr") =>
        LET crow == ret.val[1]
            col  == ret.val[2]
            data == ret.val[3]
        IN  /\ ret.kind = "value"
            /\ Len(col) = Len(call.values)
            /\ Len(data) = Len(call.values)
            /\ \A r \in 0..(call.shape[1] - 1), c \in 0..(call.shape[2] - 1) :
                  /\ Cardinality(CsrHits(crow, col, r, c))
                        = Cardinality(CooHits(call.indices, r, c))
                  /\ SumOver(CsrHits(crow, col, r, c), data)
                        = SumOver(CooHits(call.indices, r, c), call.values)

\* C5 witness: an input giving the pair (1, 0) twice, returned with column 0
\* stored twice in row 1
C5_Witness ==
    /\ Returned("coo_tocsr")
    /\ call.shape = <<2, 2>>
    /\ call.indices = << <<1, 1>>, <<0, 0>> >>
    /\ call.values = <<1, 2>>
    /\ ret.val = << <<0, 0, 2>>, <<0, 0>>, <<1, 2>> >>

\* C6: for every COO input (unsorted, duplicates allowed, row indices in
\* [0, rows)) the row pointer returned by coo_tocsr has length rows+1, is
\* non-decreasing, starts with 0, ends with nnz, and row_ptr[r+1] - row_ptr[r]
\* is the number of stored entries of row r.
C6_RowPointer ==
    Returned("coo_tocsr") =>
        LET crow == ret.val[1]
            rows == call.shape[1]
            nnz  == Len(call.values)
        IN  /\ Len(crow) = rows + 1
            /\ At(crow, 0) = 0
            /\ At(crow, rows) = nnz
            /\ \A r \in 0..(rows - 1) :
                  /\ At(crow, r) <= At(crow, r + 1)
                  /\ At(crow, r + 1) - At(crow, r)
                        = Cardinality({n \in 1..nnz : call.indices[1][n] = r})
                  /\ \A q \in CsrRow(crow, r) :
                        \E n \in 1..nnz : /\ call.indices[1][n] = r
                                          /\ call.indices[2][n] = ret.val[2][q]
                                          /\ call.values[n] = ret.val[3][q]

\* C6 witness: two entries given last row first
C6_Witness ==
    /\ Returned("coo_tocsr")
    /\ call.shape = <<2, 2>>
    /\ call.indices = << <<1, 0>>, <<0, 1>> >>
    /\ ret.val[1] = <<0, 1, 2>>
    /\ ret.val[2] = <<1, 0>>

\* C7: round trip: for every COO matrix and every dense vector x of matching
\* length, csr_spmm applied to the triple returned by coo_tocsr equals the
\* dense matrix-vector product of the materialized matrix (duplicates added
\* together) with x.
C7_RoundTrip ==
    (Returned("csr_spmm") /\ call.values.ndim = 1 /\ call.other.ndim = 1) =>
        /\ ret.kind = "value"
        /\ ret.val = DenseMatVec(
                         DenseOfCoo(call.coo.indices, call.coo.values, call.shape),
                         call.other.data)

\* C7 witness: a COO input with a repeated pair, given last row first,
\* multiplied with a vector without zeros
C7_Witness ==
    /\ Returned("csr_spmm")
    /\ call.shape = <<2, 2>>
    /\ call.coo.indices = << <<1, 1>>, <<1, 1>> >>
    /\ call.coo.values = <<1, 2>>
    /\ call.other = Tensor(1, <<-1, 1>>)
    /\ ret.val = <<0, 3>>

\* the dense matrix the sparse arguments of a product call stand for
DenseOfCall ==
    IF call.op = "coo_spmm"
    THEN DenseOfCoo(call.indices, call.values.data, call.shape)
    ELSE DenseOfCsr(call.crow, call.col, call.values.data, call.shape)

\* C8: coo_spmm and csr_spmm with a rank 1 operand return the dense
\* matrix-vector product, and with a rank 2 operand of shape (N, K) the
\* (M, K) matrix whose k-th column is the product with the k-th column of the
\* operand: the dense product of the materialized matrix and the operand.
C8_SpmmIsDenseProduct ==
    ((Returned("coo_spmm") \/ Returned("csr_spmm")) /\ call.values.ndim = 1) =>
        /\ call.other.ndim = 1 =>
              /\ ret.kind = "value"
              /\ ret.val = DenseMatVec(DenseOfCall, call.other.data)
        /\ call.other.ndim = 2 =>
              LET K == Len(call.other.data[1])
              IN  /\ ret.kind = "value"
                  /\ Len(ret.val) = call.shape[1]
                  /\ \A r \in 1..Len(ret.val) : Len(ret.val[r]) = K
                  /\ \A k \in 1..K :
                        Column(ret.val, k)
                            = DenseMatVec(DenseOfCall, Column(call.other.data, k))
                  /\ ret.val = DenseMatMat(DenseOfCall, call.other.data, K)

\* C8 witness: coo_spmm on a matrix with a repeated pair and an operand with
\* two different columns
C8_Witness ==
    /\ Returned("coo_spmm")
    /\ call.shape = <<2, 2>>
    /\ call.indices = << <<1, 1>>, <<0, 0>> >>
    /\ call.values = Tensor(1, <<1, 2>>)
    /\ call.other = Tensor(2, << <<-1, 1>>, <<1, -1>> >>)
    /\ ret.val = << <<0, 0>>, <<-3, 3>> >>

C10_SpspmmIsDenseProduct ==
    Returned("csr_spspmm") =>
        LET crow  == ret.val[1]
            col   == ret.val[2]
            data  == ret.val[3]
            shape == ret.val[4]
            A     == DenseOfCsr(call.crow1, call.col1, call.values1, call.shape1)
            B     == DenseOfCsr(call.crow2, call.col2, call.values2, call.shape2)
        IN  /\ ret.kind = "value"
            /\ shape = <<call.shape1[1], call.shape2[2]>>
            /\ Len(crow) = shape[1] + 1
            /\ At(crow, 0) = 0
            /\ At(crow, shape[1]) = Len(col)
            /\ Len(data) = Len(col)
            /\ \A r \in 0..(shape[1] - 1) :
                  /\ At(crow, r) <= At(crow, r + 1)
                  /\ \A c \in 0..(shape[2] - 1) :
                        Cardinality(CsrHits(crow, col, r, c)) <= 1
            /\ DenseOfCsr(crow, col, data, shape) = DenseMatMat(A, B, shape[2])

\* C10 witness: row 0 of A holds two entries whose products both fall on
\* column 0 of the result and are stored as one value
C10_Witness ==
    /\ Returned("csr_spspmm")
    /\ call.shape1 = <<1, 2>>
    /\ call.shape2 = <<2, 1>>
    /\ call.col1 = <<1, 0>>
    /\ call.values1 = <<1, 2>>
    /\ call.col2 = <<0, 0>>
    /\ call.values2 = <<1, 2>>
    /\ ret.val = << <<0, 1>>, <<0>>, <<4>>, <<1, 1>> >>

(***************************************************************************)
(* Properties of the geometry kernels.                                     *)
(***************************************************************************)
\* the points of cell c of the call in progress
PointsOf(cells, c) ==
    [k \in 1..Len(cells[c]) |-> call.node[cells[c][k] + 1]]

\* the determinant, by Leibniz' formula, of the vectors from each vertex to
\* the next one
EdgeDeterminant(P) ==
    LET E(k, d) == P[k + 1][d] - P[k][d]
    IN  CASE Len(P) = 2 -> E(1, 1)
          [] Len(P) = 3 -> E(1, 1) * E(2, 2) - E(1, 2) * E(2, 1)
          [] Len(P) = 4 ->
                 E(1, 1) * E(2, 2) * E(3, 3) + E(1, 2) * E(2, 3) * E(3, 1)
               + E(1, 3) * E(2, 1) * E(3, 2) - E(1, 3) * E(2, 2) * E(3, 1)
               - E(1, 2) * E(2, 1) * E(3, 3) - E(1, 1) * E(2, 3) * E(3, 2)

UnitTriangle == << <<0, 0>>, <<1, 0>>, <<0, 1>> >>
UnitTetrahedron == << <<0, 0, 0>>, <<1, 0, 0>>, <<0, 1, 0>>, <<0, 0, 1>> >>

\* C11: simplex_measure returns, for each simplex, the determinant of its TD
\* consecutive edge vectors divided by TD! (1, 2, 6 for TD = 1, 2, 3): 1/2 for
\* the triangle (0,0),(1,0),(0,1) and 1/6 for the unit tetrahedron.
C11_MeasureIsDeterminant ==
    (Returned("simplex_measure") /\ ret.kind = "value") =>
        \A c \in 1..Len(call.entity) :
            LET P == PointsOf(call.entity, c)
                TDfact == CASE Len(P) = 2 -> 1 [] Len(P) = 3 -> 2 [] Len(P) = 4 -> 6
            IN  /\ ret.val[c][1] * TDfact = EdgeDeterminant(P) * ret.val[c][2]
                /\ ret.val[c][2] > 0
                /\ P = UnitTriangle => ret.val[c] = <<1, 2>>
                /\ P = UnitTetrahedron => ret.val[c] = <<1, 6>>

\* the unit tetrahedron has been measured
C11_Witness ==
    /\ Returned("simplex_measure")
    /\ ret.kind = "value"
    /\ PointsOf(call.entity, 1) = UnitTetrahedron
    /\ ret.val[1] = <<1, 6>>

\* twice the signed area of a triangle, from its first vertex
TwiceArea(P) ==
    (P[2][1] - P[1][1]) * (P[3][2] - P[1][2])
  - (P[3][1] - P[1][1]) * (P[2][2] - P[1][2])

\* the numerator of entry (i, j) of the gradients of a triangle: the edge
\* opposite to vertex i, turned by a right angle
GradNumerator(P, i, j) ==
    LET a == P[(i % 3) + 1]
        b == P[((i + 1) % 3) + 1]
    IN  IF j = 1 THEN -(b[2] - a[2]) ELSE b[1] - a[1]

IsFinite(x) == x[2] # 0

C17_DimensionErrors ==
    /\ Returned("simplex_measure") =>
          (Len(call.node[1]) # Len(call.entity[1]) - 1 =>
              ret.kind = "raise" /\ ret.exc = "RuntimeError")
    /\ Returned("edge_normal") =>
          (Len(call.node[1]) # 2 =>
              ret.kind = "raise" /\ ret.exc = "ValueError")

\* edge_normal has been called with the nodes of a mesh in three dimensions
C17_Witness ==
    /\ Returned("edge_normal")
    /\ Len(call.node[1]) = 3
    /\ call.edge[1][1] # call.edge[1][2]
    /\ ret.kind = "raise"

\* C18: for p = 0 simplex_shape_function returns one value, 1, and
\* simplex_grad_shape_function one row of TD + 1 zeros.
C18_DegreeZero ==
    /\ (Returned("simplex_shape_function") /\ call.p = 0) =>
          ret.kind = "value" /\ ret.val = << RInt(1) >>
    /\ (Returned("simplex_grad_shape_function") /\ call.p = 0) =>
          /\ ret.kind = "value"
          /\ Len(ret.val) = 1
          /\ Len(ret.val[1]) = Len(call.bc)
          /\ \A i \in 1..Len(call.bc) : ret.val[1][i] = RInt(0)

\* the gradient of degree 0 on a tetrahedron has been computed
C18_Witness ==
    /\ Returned("simplex_grad_shape_function")
    /\ call.p = 0
    /\ Len(call.bc) = 4
    /\ ret.val = << <<RInt(0), RInt(0), RInt(0), RInt(0)>> >>

(***************************************************************************)
(* Properties of vmap.                                                     *)
(***************************************************************************)
\* the function applied to every entry of the arrays
Elementwise(func, args) ==
    LET X == args[1]
        Each(f(_, _)) == [i \in 1..Len(X) |-> [j \in 1..Len(X[1]) |-> f(i, j)]]
        Double(i, j) == 2 * X[i][j]
        Negate(i, j) == -X[i][j]
        Add(i, j) == X[i][j] + args[2][i][j]
    IN  CASE func = "double" -> Each(Double)
          [] func = "add" -> Each(Add)
          [] func = "double_and_negate" -> << Each(Double), Each(Negate) >>

C13_AxesMismatchRejected ==
    (Returned("vmap") /\ call.in_axes # call.out_axes) =>
        /\ ret.kind = "raise"
        /\ ret.exc = "ValueError"
        /\ ret.invoked = <<>>

C13_Witness ==
    /\ Returned("vmap")
    /\ call.in_axes = 0
    /\ call.out_axes = 1
    /\ ret.kind = "raise"

(***************************************************************************)
(* Properties of array creation and of the unimplemented operations.       *)
(***************************************************************************)
\* C14 as stated: a creation function ignores an absent device, device = None
\* and device = "cpu", and raises for any other device.
C14_OtherDeviceRejected ==
    Returned("creation") =>
        IF "device" \in DOMAIN call.kwargs /\ call.kwargs["device"] \notin {None, "cpu"}
        THEN ret.kind = "raise"
        ELSE ret.kind = "value"

\* C15 as stated: an operation of the adapter returns a result or raises; it
\* does not return None.
C15_NoSilentNone ==
    (pc = "returned" /\ call.op \in {"creation", "device_put"} \cup UnimplementedNames) =>
        \/ ret.kind = "raise"
        \/ ret.kind = "value" /\ ret.val # None

(***************************************************************************)
(* Properties of the threads.                                              *)
(***************************************************************************)
\* C19: a computation dispatches its operations to the engine its own thread
\* selected, whatever the other threads select meanwhile.
C19_OwnSelection ==
    \A t \in Threads :
        job[t].busy =>
            /\ engine[t] = job[t].selected
            /\ job[t].used \subseteq {job[t].selected}

\* two threads compute at the same time, each with its own engine
C19_Witness ==
    /\ job["t1"].busy /\ job["t1"].used = {"jax"}
    /\ job["t2"].busy /\ job["t2"].used = {"pytorch"}

\* C20 as stated: the values a thread draws after seeding are those of its
\* own generator, whatever the other threads seed or draw.
C20_DrawsUndisturbed ==
    \A t \in Threads :
        drawn[t].alone.seed # 0 => drawn[t].val = drawn[t].alone

\* C21 as stated: after a thread has called seed(n) and drawn j times since,
\* the last value it drew is value j of the stream of n, whatever any thread
\* seeded or drew before or meanwhile.
C21_SeedDeterminesDraws ==
    \A t \in Threads :
        (own[t].seed # 0 /\ own[t].k > 0) =>
            /\ drawn[t].val.seed = own[t].seed
            /\ drawn[t].val.k = own[t].k - 1

NumpyRows(p, dim, first) ==
    LET mi == multi_index_matrix(p, dim)
        n == IF Len(mi) - first < MaxRead THEN Len(mi) - first ELSE MaxRead
    IN  SubSeq(mi, first + 1, first + n)

(***************************************************************************)
(* C24: for every p >= 0 and etype in {1, 2, 3} the closed form            *)
(* MeshBase.multi_index_matrix(p, etype) returns the rows of               *)
(* NumPyBackend.multi_index_matrix(p, etype) in the same order.  The rows  *)
(* of the latter are the non-negative rows of sum p in decreasing          *)
(* lexicographic order (C1, C2): up to degree MaxP the two are compared    *)
(* row by row, and at every degree the rows read must be such rows in that *)
(* order, the first row being (p, 0, ..., 0).                              *)
(***************************************************************************)
C24_ClosedFormAsCombinatorial ==
    (Returned("jax_multi_index_matrix") /\ call.etype \in TDs) =>
        LET p == call.p
            rows == ret.val
        IN  /\ p <= MaxP => rows = NumpyRows(p, call.etype, call.first)
            /\ \A k \in 1..Len(rows) :
                  /\ \A i \in 1..(call.etype + 1) : rows[k][i] >= 0
                  /\ SumSeq(rows[k]) = p
                  /\ (call.first + k - 1 > 0) =>
                        rows[k] # <<p>> \o Zeros(call.etype)
            /\ \A k \in 1..(Len(rows) - 1) : RowLess(rows[k + 1], rows[k])

\* g . v for a gradient g of rationals and a vector v of integers
RDot(g, v) == RSum(Array([d \in 1..Len(v) |-> RMul(g[d], RInt(v[d]))]))

Delta(i, j) == IF i = j THEN 1 ELSE 0

(***************************************************************************)
(* C26: for every triangle of non-zero area, of either orientation, the    *)
(* gradients g1, g2, g3 returned by triangle_grad_lambda_2d are finite and *)
(* satisfy g_i . (x_j - x_k) = delta_ij - delta_ik for all vertices        *)
(* x_j, x_k, and so g1 + g2 + g3 = 0.                                      *)
(***************************************************************************)
C26_GradLambdaDuality ==
    Returned("triangle_grad_lambda_2d") =>
        \A c \in 1..Len(call.tri) :
            LET P == PointsOf(call.tri, c)
                g == ret.val[c]
            IN  TwiceArea(P) # 0 =>
                    /\ \A i \in 1..3, d \in 1..2 : IsFinite(g[i][d])
                    /\ \A i \in 1..3, j \in 1..3, k \in 1..3 :
                          RDot(g[i], VSub(P[j], P[k]))
                              = RInt(Delta(i, j) - Delta(i, k))
                    /\ \A d \in 1..2 :
                          RSum(<<g[1][d], g[2][d], g[3][d]>>) = RInt(0)

\* a clockwise triangle: (0,0), (0,1), (1,0) and its gradients
C26_Witness ==
    /\ Returned("triangle_grad_lambda_2d")
    /\ PointsOf(call.tri, 1) = << <<0, 0>>, <<0, 1>>, <<1, 0>> >>
    /\ TwiceArea(PointsOf(call.tri, 1)) < 0
    /\ ret.val[1] = << <<RInt(-1), RInt(-1)>>, <<RInt(0), RInt(1)>>,
                       <<RInt(1), RInt(0)>> >>

(***************************************************************************)
(* C25: for p >= 1 and TD in {1, 2, 3}, with the default multi-index       *)
(* matrix mi, simplex_shape_function at the point bc = mi[j]/p gives 1 for *)
(* basis function j and 0 for every other basis function.                  *)
(***************************************************************************)
C25_NodalProperty ==
    Returned("simplex_shape_function_nd") =>
        LET p == call.p
            TD == Len(call.bc[1]) - 1
            mi == multi_index_matrix(p, TD)
        IN  \A q \in 1..Len(call.bc) :
                /\ Len(ret.val[q]) = Len(mi)
                /\ \A j \in 1..Len(mi) :
                      ret.val[q][j] =
                          IF \A i \in 1..(TD + 1) :
                                 call.bc[q][i] = Rat(mi[j][i], p)
                          THEN RInt(1) ELSE RInt(0)

\* degree 2 on a triangle at the vertex (1, 0, 0) and the edge midpoint
\* (1/2, 1/2, 0): basis functions 0 and 1
C25_Witness ==
    /\ Returned("simplex_shape_function_nd")
    /\ call.p = 2
    /\ call.bc = << <<RInt(1), RInt(0), RInt(0)>>,
                    <<Rat(1, 2), Rat(1, 2), RInt(0)>> >>
    /\ ret.val = << <<RInt(1), RInt(0), RInt(0), RInt(0), RInt(0), RInt(0)>>,
                    <<RInt(0), RInt(1), RInt(0), RInt(0), RInt(0), RInt(0)>> >>

\* the positions of the np.ndarray arguments among the positional arguments
NdPositions(args) == { k \in 1..Len(args) : args[k].nd }

\* the length of array a along the axis, and its slice s along it
AxisLen(a, in_axes) == IF NormAxis(in_axes, 2) = 0 THEN Len(a) ELSE Len(a[1])
AxisSlice(a, in_axes, s) ==
    IF NormAxis(in_axes, 2) = 0 THEN a[s]
    ELSE [q \in 1..Len(a) |-> a[q][s]]

EntityKey(TD, name) ==
    CASE name = "cell" -> TD
      [] name = "face" -> TD - 1
      [] name = "edge" -> 1

(***************************************************************************)
(* C29: an assignment to cell, face or edge stores the value under key TD, *)
(* TD-1 or 1 and changes no other key; reading one of them returns what is *)
(* stored under its key; so for TD = 2 face and edge read the same array,  *)
(* for TD = 3 the three keys differ; for TD <= 1 reading or assigning face *)
(* raises ValueError and the storage stays as it was.                      *)
(***************************************************************************)
C29_StoredByDimension ==
    [][(pc' = "returned" /\ call'.op \in {"getattr", "setattr"}
            /\ call'.name \in {"cell", "face", "edge"}) =>
        LET name == call'.name
            key == EntityKey(ds.TD, name)
        IN  IF name = "face" /\ ds.TD <= 1
            THEN /\ ret'.kind = "raise"
                 /\ ret'.exc = "ValueError"
                 /\ ds' = ds
            ELSE IF call'.op = "setattr"
            THEN /\ ret'.kind = "value"
                 /\ key \in DOMAIN ds'.storage
                 /\ ds'.storage[key] = call'.value
                 /\ DOMAIN ds'.storage = DOMAIN ds.storage \cup {key}
                 /\ \A d \in DOMAIN ds.storage \ {key} :
                       ds'.storage[d] = ds.storage[d]
                 /\ ds'.TD = ds.TD
                 /\ (ds.TD = 3 =>
                        Cardinality({ EntityKey(3, n) :
                                        n \in {"cell", "face", "edge"} }) = 3)
            ELSE /\ ds' = ds
                 /\ (key \in DOMAIN ds.storage =>
                        ret' = Value(ds.storage[key]))
                 /\ (ds.TD = 2 /\ 1 \in DOMAIN ds.storage =>
                        ret' = mesh_getattr(ds, IF name = "face" THEN "edge"
                                                ELSE name))
    ]_vars

\* a triangle mesh: B, the array stored last under key 1, is read as face
C29_Witness ==
    /\ Returned("getattr")
    /\ ds.TD = 2
    /\ call.name = "face"
    /\ DOMAIN ds.storage = {1, 2}
    /\ ds.storage[1] = "B" /\ ds.storage[2] = "A"
    /\ ret = Value("B")

\* the vmap function of each backend VmapBackend supports
VmapFunctionOf ==
    [b \in Engines |-> CASE b = "jax" -> "jax.vmap"
                         [] b = "numpy" -> "np.vectorize"
                         [] b = "pytorch" -> "torch.vmap"]

(***************************************************************************)
(* C30: a construction of VmapBackend while jax, numpy or pytorch is       *)
(* active stores the vmap function of that backend; while any other        *)
(* backend is active it raises ValueError and makes no object; no other    *)
(* step, a switch of the active backend included, changes the function an  *)
(* object has stored, and apply() uses the stored function.                *)
(***************************************************************************)
C30_VmapFixedAtConstruction ==
    [][IF pc = "idle" /\ pc' = "returned" /\ call'.op = "VmapBackend"
       THEN IF backend_name \in Engines
            THEN /\ ret'.kind = "value"
                 /\ vb'.made
                 /\ vb'.vmap_func = VmapFunctionOf[backend_name]
            ELSE /\ ret'.kind = "raise"
                 /\ ret'.exc = "ValueError"
                 /\ vb' = vb
       ELSE /\ vb' = vb
            /\ (pc = "idle" /\ pc' = "returned" /\ call'.op = "apply") =>
                   /\ vb.made
                   /\ ret'.val.used = vb.vmap_func
    ]_vars

\* an object made under jax is applied while pytorch is active
C30_Witness ==
    /\ Returned("apply")
    /\ backend_name = "pytorch"
    /\ vb.vmap_func = "jax.vmap"
    /\ ret.val.used = "jax.vmap"

\* the coordinates of the entries of t (counted from 0), the entry at one
\* of them, and the coordinate with position k along axis ax in its place
CoordsOf(t) ==
    IF t.ndim = 1 THEN { <<i>> : i \in 0..(Len(t.data) - 1) }
    ELSE (0..(Len(t.data) - 1)) \X (0..(Len(t.data[1]) - 1))

EntryAt(t, c) ==
    IF t.ndim = 1 THEN t.data[c[1] + 1] ELSE t.data[c[1] + 1][c[2] + 1]

CoordWith(c, ax, k) == [c EXCEPT ![ax + 1] = k]

\* the sources aimed at coordinate c: the k with indices[k] naming the
\* position of c along ax
AimedAt(t, ax, indices, c) ==
    { k \in 1..Len(indices) :
        NormAxis(indices[k], AxisLength(t, ax)) = c[ax + 1] }

RECURSIVE SourceSum(_, _, _, _)
SourceSum(S, src, ax, c) ==
    IF S = {} THEN 0
    ELSE LET k == CHOOSE x \in S : TRUE
         IN  EntryAt(src, CoordWith(c, ax, k - 1)) + SourceSum(S \ {k}, src, ax, c)

(***************************************************************************)
(* C28: set_at, add_at and index_add write the array a they are given and  *)
(* return that array; no other array changes; after add_at and index_add   *)
(* every entry is its old value plus (alpha times) the sum of all sources  *)
(* aimed at it, indices that occur several times included; set_at leaves   *)
(* the entries no index names unchanged and gives the others a source      *)
(* aimed at them.                                                          *)
(***************************************************************************)
C28_InPlaceAccumulate ==
    [][(pc = "idle" /\ pc' = "returned"
            /\ call'.op \in {"set_at", "add_at", "index_add"}) =>
        LET a == call'.a
            old == mem[a].val
            new == mem'[a].val
            ax == NormAxis(call'.axis, old.ndim)
        IN  /\ ret' = Value(a)
            /\ Len(mem') = Len(mem)
            /\ \A b \in 1..Len(mem) : b # a => mem'[b] = mem[b]
            /\ CoordsOf(new) = CoordsOf(old)
            /\ \A c \in CoordsOf(old) :
                  LET S == AimedAt(old, ax, call'.indices, c)
                  IN  IF call'.op = "set_at"
                      THEN IF S = {} THEN EntryAt(new, c) = EntryAt(old, c)
                           ELSE \E k \in S : EntryAt(new, c) =
                                    EntryAt(call'.src, CoordWith(c, ax, k - 1))
                      ELSE EntryAt(new, c) = EntryAt(old, c)
                               + call'.alpha * SourceSum(S, call'.src, ax, c)
    ]_vars

\* add_at with the index 0 twice, once counted from the end: 1 + 1 + 3
C28_Witness ==
    /\ Returned("add_at")
    /\ call.indices = <<0, -3>>
    /\ call.src = Tensor(1, <<1, 3>>)
    /\ ret = Value(call.a)
    /\ mem[call.a].val = Tensor(1, <<5, 2, 3>>)
    /\ mem[call.a].written

\* the call gives an out argument
OutGiven(kernel, x) ==
    \E k \in 1..Len(x) : KernelArrays[kernel][k] = "out" /\ x[k] # {}

(***************************************************************************)
(* C22: a call of one of the thirteen kernels without an out argument      *)
(* leaves every array of the caller as it was, its arguments included:     *)
(* everything the call writes in place is memory the call allocated.       *)
(***************************************************************************)
C22_KernelsWriteFreshOnly ==
    [][(pc = "idle" /\ pc' = "returned" /\ call'.op = "kernel"
            /\ ~OutGiven(call'.kernel, call'.x)) =>
        /\ mem' = mem
        /\ ret'.wrote = {}
    ]_vars

\* coo_tocsr has returned: its two arguments are as they were allocated and
\* the result is new memory
C22_Witness ==
    /\ Returned("kernel")
    /\ call.kernel = "coo_tocsr"
    /\ call.x = <<{1}, {2}>>
    /\ ~mem[1].written /\ ~mem[2].written
    /\ ret.kind = "value"
    /\ ret.result = {}

====
